---- MODULE Spec2Model ----
(***************************************************************************)
(* Concept store and hierarchy engine of the concept tracker:              *)
(* StorageService (load, save, addConcept, updateConcept, deleteConcept,   *)
(* updateConceptParent, wouldCreateCycle) and the forest construction of   *)
(* ExportService.buildTree / GET /api/concepts/tree.                       *)
(*                                                                         *)
(* Strings of the program are TLA+ strings.  The JavaScript values         *)
(* undefined and null are the two strings Undefined and Null, which are    *)
(* never used as a name.  ISO timestamps are the natural numbers read off  *)
(* a non-decreasing clock; uuids are the numbers 1, 2, ... handed out in   *)
(* order.                                                                  *)
(*                                                                         *)
(* loaded, concepts and lastUpdated are the store of the StorageService    *)
(* whose calls are being served and disk is its document.  The remote      *)
(* server keeps one StorageService for each user token: tenants holds the  *)
(* token that is being served, and the stores and documents of the others. *)
(* scanner holds the project directory that ScannerService walks, and the  *)
(* arguments and the outcome of its last call.  The name of a file, an     *)
(* extension and a line of text are sequences of characters.               *)
(*                                                                         *)
(* The calls above run from their first statement to their return in one   *)
(* step.  calls holds the calls of addConcept that are taken apart at      *)
(* their awaits, so that two of them can overlap: the Store objects that   *)
(* load() has created (objects), which of them this.store is (current, 0   *)
(* for null), and for each caller where it stands and which object its     *)
(* local variable store holds.  concepts and lastUpdated are the fields of *)
(* this.store.  walk holds a call of wouldCreateCycle that is taken apart  *)
(* at the turns of its loop: the name of the child, the variables current  *)
(* and visited, and what it returned.                                      *)
(***************************************************************************)
EXTENDS Naturals, Integers, Sequences, FiniteSets, TLC

VARIABLES loaded, concepts, lastUpdated, disk, now, nextId, tree, last,
          tenants, scanner, calls, walk

vars == <<loaded, concepts, lastUpdated, disk, now, nextId, tree, last,
          tenants, scanner, calls, walk>>

(***************************************************************************)
(* Bounds of the model.                                                    *)
(***************************************************************************)
MaxIds == 2
MaxClock == 1
MaxSnippets == 2
MaxList == 3
MaxBatch == 2

(***************************************************************************)
(* JavaScript values.                                                      *)
(***************************************************************************)
Undefined == "<undefined>"
Null == "<null>"
True == "<true>"
False == "<false>"

\* if (x) on a string | undefined | null
Truthy(s) == s \notin {Undefined, Null, ""}

\* String.prototype.toLowerCase on the alphabet of the model's names
toLowerCase(s) ==
  CASE s = "A" -> "a"
    [] s = "B" -> "b"
    [] s = "C" -> "c"
    [] OTHER -> s

\* an optional array argument that was not passed
NoLocations == [given |-> FALSE, value |-> <<>>]

Locations(seq) == [given |-> TRUE, value |-> seq]

\* Array.prototype.findIndex / find: the first of the indices that pass
\* the test, 0 when there is none
FirstIndex(passing) ==
  IF passing = {} THEN 0
  ELSE CHOOSE i \in passing : \A j \in passing : i <= j

\* store.concepts.findIndex(c => c.id === id)
IndexById(cs, id) ==
  FirstIndex({i \in 1..Len(cs) : cs[i].id = id})

\* mutant of IndexByExactName: the lookup ignores case
IndexByNameIgnoringCase(cs, name) ==
  FirstIndex({i \in 1..Len(cs) : toLowerCase(cs[i].name) = toLowerCase(name)})

\* store.concepts.find(c => c.name === name)
IndexByExactName(cs, name) ==
  FirstIndex({i \in 1..Len(cs) : cs[i].name = name})

\* mutant of getConceptByName: the comparison is case-sensitive
getConceptByNameExact(cs, name) ==
  FirstIndex({i \in 1..Len(cs) : cs[i].name = name})

\* getConceptByName: first concept whose name equals name ignoring case
getConceptByName(cs, name) ==
  FirstIndex({i \in 1..Len(cs) : toLowerCase(cs[i].name) = toLowerCase(name)})

\* [...new Set(seq)]: first occurrences, in order
RECURSIVE Dedupe(_)
Dedupe(seq) ==
  IF seq = <<>> THEN <<>>
  ELSE LET front == Dedupe(SubSeq(seq, 1, Len(seq) - 1))
           x == seq[Len(seq)]
       IN IF \E i \in 1..Len(front) : front[i] = x THEN front
          ELSE Append(front, x)

\* Array.prototype.splice(index, 1)
Splice(seq, index) ==
  SubSeq(seq, 1, index - 1) \o SubSeq(seq, index + 1, Len(seq))

(***************************************************************************)
(* The persisted document, and the store before anything was loaded.       *)
(***************************************************************************)
\* the properties of a concept that may hold undefined
Optional == {"parent"}

\* JSON.stringify of an object: a property whose value is undefined is left
\* out
stringify(object) ==
  IF \E f \in Optional \cap DOMAIN object : object[f] = Undefined
    THEN [k \in {f \in DOMAIN object : ~(f \in Optional /\ object[f] = Undefined)}
            |-> object[k]]
    ELSE object

\* reading property k of a parsed JSON object
Property(json, k) == IF k \in DOMAIN json THEN json[k] ELSE Undefined

\* Concept.parse of a parsed JSON object: parent is optional
parseConcept(json) ==
  [k \in DOMAIN json \cup {"parent"} |-> Property(json, k)]

\* kind: "missing" (no file), "unreadable" (readFile rejects), "notJson"
\* (JSON.parse throws, also a file that was written in part), "json"
NoDocument == [exists |-> FALSE, kind |-> "missing", concepts |-> <<>>,
               lastUpdated |-> 0]

\* JSON.stringify(this.store, null, 2)
Document(cs, stamp) ==
  [exists |-> TRUE, kind |-> "json",
   concepts |-> [i \in 1..Len(cs) |-> stringify(cs[i])],
   lastUpdated |-> stamp]

\* a file that fs.writeFile truncated and then failed to write
TornDocument == [exists |-> TRUE, kind |-> "notJson", concepts |-> <<>>,
                 lastUpdated |-> 0]

\* no forest has been requested since the last mutation
EmptyForest == [built |-> FALSE, roots |-> <<>>, nodes |-> {},
                concept |-> [n \in {} |-> 0], children |-> [n \in {} |-> <<>>]]

\* the response body of a call that returns no document
NoBody == [exportedAt |-> 0, count |-> 0, concepts |-> <<>>]

\* an optional list of concept ids
NoIds == [given |-> FALSE, value |-> <<>>]

ConceptIds(seq) == [given |-> TRUE, value |-> seq]

\* the last call: its arguments, its outcome (result), the outcome of the
\* write it made (saved), the error its caller got (error) and the body of
\* its response
NoCall == [op |-> "none", id |-> 0, name |-> Undefined, parent |-> Undefined,
           category |-> Undefined, explanation |-> Undefined, snippet |-> Undefined,
           locations |-> NoLocations, ids |-> NoIds, result |-> "none",
           saved |-> "none",
           error |-> "none", at |-> 0, body |-> NoBody,
           includeSnippets |-> Undefined, includeCodeLocations |-> Undefined,
           lines |-> <<>>]

\* what the caller of a mutation gets when its save() ended as w: save() has
\* no catch, a rejected write is thrown on
WriteError(w) == IF w = "ok" THEN "none" ELSE "io"

\* the remote server before its first connection: userStorages is empty
NoToken == <<>>

NoTenants == [active |-> NoToken, storages |-> {}, files |-> {}]

\* an optional array option that was not passed
NoList == [given |-> FALSE, value |-> <<>>]

List(seq) == [given |-> TRUE, value |-> seq]

\* a scanner that has no project to walk and was not called
NoScan == [project |-> <<>>, called |-> FALSE, include |-> NoList,
           exclude |-> NoList, files |-> <<>>, results |-> <<>>,
           error |-> "none"]

\* the callers whose calls are taken apart at their awaits
Callers == {1, 2}

NoCalls == [objects |-> <<>>, current |-> 0,
            at |-> [o \in Callers |-> "idle"],
            store |-> [o \in Callers |-> 0],
            name |-> [o \in Callers |-> Undefined],
            existing |-> [o \in Callers |-> 0],
            data |-> [o \in Callers |-> NoDocument],
            returned |-> {}]

\* wouldCreateCycle was not called
NoWalk == [at |-> "idle", child |-> Undefined, parentName |-> Undefined,
           current |-> Undefined, visited |-> {}, result |-> FALSE]

Init ==
  /\ loaded = FALSE
  /\ concepts = <<>>
  /\ lastUpdated = 0
  /\ disk = NoDocument
  /\ now = 0
  /\ nextId = 1
  /\ tree = EmptyForest
  /\ last = NoCall
  /\ tenants = NoTenants
  /\ scanner = NoScan
  /\ calls = NoCalls
  /\ walk = NoWalk

\* the times at or after t at which a call can run or read new Date()
Readings(t, tick) == {u \in t..(now + tick) : u <= MaxClock}

(***************************************************************************)
(* The document after fs.writeFile of store cs ended as w                  *)
(***************************************************************************)
Written(document, cs, stamp, w) ==
  CASE w = "ok" -> Document(cs, stamp)
    [] w = "torn" -> TornDocument
    [] OTHER -> document

saveBeforeChange(cs, stamp, w) ==
  /\ lastUpdated' = stamp
  /\ disk' = Written(disk, concepts, stamp, w)
  /\ now' = stamp

(***************************************************************************)
(* save(): stamps lastUpdated and replaces the whole document; w is the    *)
(* outcome of fs.writeFile: "ok", "fail" (rejected, the file as it was),   *)
(* "torn" (rejected after the file was truncated).                         *)
(***************************************************************************)
save(cs, stamp, w) ==
  /\ lastUpdated' = stamp
  /\ disk' = Written(disk, cs, stamp, w)
  /\ now' = stamp

\* an operation that returns or throws at time t before it reaches save()
NoSave(t) ==
  /\ lastUpdated' = IF loaded THEN lastUpdated ELSE t
  /\ now' = t
  /\ UNCHANGED disk

(***************************************************************************)
(* load(): the store of the process if there is one, else the document if  *)
(* it can be read, parsed and validated, else a fresh empty store.         *)
(***************************************************************************)
ConceptCategory == {"language", "library", "pattern", "architecture"}

\* ConceptStore.parse, as far as the documents of the model can fail it:
\* the category of every concept is one of the enum
ConformsToSchema(document) ==
  \A i \in 1..Len(document.concepts) :
    Property(document.concepts[i], "category") \in ConceptCategory

readDocumentUnchecked(document) ==
  IF document.kind = "json" THEN "ok" ELSE "throws"

\* the outcome of the try block
readDocument(document) ==
  IF document.kind = "json" /\ ConformsToSchema(document) THEN "ok" ELSE "throws"

\* this.store after load() of a process that had none, at time t
LoadedStore(document, t) ==
  IF readDocument(document) = "ok"
    THEN [concepts |-> [i \in 1..Len(document.concepts) |->
                          parseConcept(document.concepts[i])],
          lastUpdated |-> document.lastUpdated]
    ELSE [concepts |-> <<>>, lastUpdated |-> t]

\* getAllConcepts(): load() and nothing else
GetAllConcepts(t) ==
  /\ loaded' = TRUE
  /\ concepts' = IF loaded THEN concepts ELSE LoadedStore(disk, t).concepts
  /\ lastUpdated' = IF loaded THEN lastUpdated
                    ELSE LoadedStore(disk, t).lastUpdated
  /\ now' = t
  /\ tree' = EmptyForest
  /\ UNCHANGED <<tenants, scanner, calls, walk>>
  /\ last' = [NoCall EXCEPT !.op = "getAllConcepts", !.result = "loaded",
                            !.at = t]
  /\ UNCHANGED <<disk, nextId>>

\* the process ends and a new one starts: new StorageService(), store null
Restart ==
  /\ loaded' = FALSE
  /\ concepts' = <<>>
  /\ lastUpdated' = 0
  /\ tree' = EmptyForest
  /\ UNCHANGED <<tenants, scanner, calls, walk>>
  /\ last' = [NoCall EXCEPT !.op = "restart", !.at = now]
  /\ UNCHANGED <<disk, now, nextId>>

(***************************************************************************)
(* wouldCreateCycle(concepts, childId, parentName)                         *)
(***************************************************************************)
\* mutant of CycleWalk: the walk does not compare with the child's name
RECURSIVE CycleWalkNoChildTest(_, _, _, _)
CycleWalkNoChildTest(cs, childName, current, visited) ==
  IF ~Truthy(current) THEN FALSE
  ELSE IF current \in visited THEN TRUE
  ELSE LET p == IndexByExactName(cs, current)
       IN CycleWalkNoChildTest(cs, childName,
                               IF p = 0 THEN Undefined ELSE cs[p].parent,
                               visited \cup {current})

RECURSIVE CycleWalk(_, _, _, _)
CycleWalk(cs, childName, current, visited) ==
  IF ~Truthy(current) THEN FALSE
  ELSE IF current = childName THEN TRUE
  ELSE IF current \in visited THEN TRUE
  ELSE LET p == IndexByExactName(cs, current)
       IN CycleWalk(cs, childName,
                    IF p = 0 THEN Undefined ELSE cs[p].parent,
                    visited \cup {current})

\* mutant of wouldCreateCycle: the walk ends after the parent of parentName
wouldCreateCycleTwoSteps(cs, childId, parentName) ==
  LET c == IndexById(cs, childId)
      p == IndexByExactName(cs, parentName)
  IN IF c = 0 THEN FALSE
     ELSE \/ parentName = cs[c].name
          \/ p # 0 /\ cs[p].parent = cs[c].name

wouldCreateCycle(cs, childId, parentName) ==
  LET c == IndexById(cs, childId)
  IN IF c = 0 THEN FALSE
     ELSE CycleWalk(cs, cs[c].name, parentName, {})

(***************************************************************************)
(* updateConcept(id, updates), also the merge branch of addConcept         *)
(***************************************************************************)
\* mutant of pushSnippet: the new record goes in front
pushSnippetInFront(chatSnippets, chatSnippet, t) ==
  IF Truthy(chatSnippet)
    THEN <<[timestamp |-> t, content |-> chatSnippet]>> \o chatSnippets
    ELSE chatSnippets

\* if (updates.chatSnippet) concept.chatSnippets.push({timestamp, content})
pushSnippet(chatSnippets, chatSnippet, t) ==
  IF Truthy(chatSnippet)
    THEN Append(chatSnippets, [timestamp |-> t, content |-> chatSnippet])
    ELSE chatSnippets

UpdatedConceptReplacing(c, name, explanation, chatSnippet, codeLocations, t) ==
  [c EXCEPT
     !.name = IF Truthy(name) THEN name ELSE @,
     !.explanation = IF Truthy(explanation) THEN explanation ELSE @,
     !.chatSnippets = pushSnippet(@, chatSnippet, t),
     !.codeLocations = IF codeLocations.given THEN codeLocations.value ELSE @,
     !.lastSeen = t]

UpdatedConcept(c, name, explanation, chatSnippet, codeLocations, t) ==
  [c EXCEPT
     !.name = IF Truthy(name) THEN name ELSE @,
     !.explanation = IF Truthy(explanation) THEN explanation ELSE @,
     !.chatSnippets = pushSnippet(@, chatSnippet, t),
     !.codeLocations = IF codeLocations.given
                         THEN Dedupe(@ \o codeLocations.value)
                         ELSE @,
     !.lastSeen = t]

UpdateBodyTouchingAll(call, id, name, explanation, chatSnippet, codeLocations, t1, t2, w, okResult) ==
  LET index == IndexById(concepts, id)
  IN IF index = 0
       THEN /\ concepts' = concepts
            /\ NoSave(t1)
            /\ last' = [call EXCEPT !.id = id, !.result = "notFoundId",
                                    !.error = "notFound", !.at = t1]
       ELSE /\ concepts' = [i \in 1..Len(concepts) |->
                  IF i = index
                    THEN UpdatedConcept(concepts[i], name, explanation,
                                        chatSnippet, codeLocations, t1)
                    ELSE [concepts[i] EXCEPT !.lastSeen = t1]]
            /\ save(concepts', t2, w)
            /\ last' = [call EXCEPT !.id = id, !.result = okResult,
                                    !.saved = w, !.error = WriteError(w),
                                    !.at = t1]

UpdateBody(call, id, name, explanation, chatSnippet, codeLocations, t1, t2, w, okResult) ==
  LET index == IndexById(concepts, id)
  IN IF index = 0
       THEN /\ concepts' = concepts
            /\ NoSave(t1)
            /\ last' = [call EXCEPT !.id = id, !.result = "notFoundId",
                                    !.error = "notFound", !.at = t1]
       ELSE /\ concepts' = [concepts EXCEPT ![index] =
                  UpdatedConcept(@, name, explanation, chatSnippet, codeLocations, t1)]
            /\ save(concepts', t2, w)
            /\ last' = [call EXCEPT !.id = id, !.result = okResult,
                                    !.saved = w, !.error = WriteError(w),
                                    !.at = t1]

UpdateConcept(id, name, explanation, chatSnippet, codeLocations, t1, t2, w) ==
  /\ Truthy(chatSnippet) =>
       \A i \in 1..Len(concepts) :
         concepts[i].id = id => Len(concepts[i].chatSnippets) < MaxSnippets
  /\ UpdateBody([NoCall EXCEPT !.op = "updateConcept", !.name = name,
                                !.explanation = explanation,
                                !.snippet = chatSnippet,
                                !.locations = codeLocations],
                id, name, explanation, chatSnippet, codeLocations, t1, t2, w,
                "updated")
  /\ loaded' = TRUE
  /\ tree' = EmptyForest
  /\ UNCHANGED <<tenants, scanner, calls, walk>>
  /\ UNCHANGED nextId

(***************************************************************************)
(* addConcept(extracted, chatSnippet)                                      *)
(***************************************************************************)
\* mutant of NewConcept: every concept gets the same id
NewConceptSameId(id, name, category, parent, explanation, chatSnippet, t) ==
  [id |-> 1, name |-> name, category |-> category, parent |-> parent,
   explanation |-> explanation,
   chatSnippets |-> IF Truthy(chatSnippet)
                      THEN <<[timestamp |-> t, content |-> chatSnippet]>>
                      ELSE <<>>,
   codeLocations |-> <<>>, firstSeen |-> t, lastSeen |-> t]

NewConcept(id, name, category, parent, explanation, chatSnippet, t) ==
  [id |-> id, name |-> name, category |-> category, parent |-> parent,
   explanation |-> explanation,
   chatSnippets |-> IF Truthy(chatSnippet)
                      THEN <<[timestamp |-> t, content |-> chatSnippet]>>
                      ELSE <<>>,
   codeLocations |-> <<>>, firstSeen |-> t, lastSeen |-> t]

\* mutant of AddConcept: the merge passes the new explanation on
AddConceptOverwriting(name, category, parent, explanation, chatSnippet, t1, t2, w) ==
  LET existing == getConceptByName(concepts, name)
  IN /\ loaded' = TRUE
     /\ tree' = EmptyForest
     /\ UNCHANGED <<tenants, scanner, calls, walk>>
     /\ IF existing # 0
          THEN /\ Truthy(chatSnippet) =>
                    Len(concepts[existing].chatSnippets) < MaxSnippets
               /\ UpdateBody([NoCall EXCEPT !.op = "addConcept", !.name = name,
                                             !.parent = parent,
                                             !.category = category,
                                             !.explanation = explanation,
                                             !.snippet = chatSnippet],
                             concepts[existing].id, Undefined, explanation,
                             chatSnippet, NoLocations, t1, t2, w, "merged")
               /\ UNCHANGED nextId
          ELSE /\ nextId <= MaxIds
               /\ concepts' = Append(concepts,
                    NewConcept(nextId, name, category, parent, explanation,
                               chatSnippet, t1))
               /\ nextId' = nextId + 1
               /\ save(concepts', t2, w)
               /\ last' = [NoCall EXCEPT !.op = "addConcept", !.id = nextId,
                                         !.name = name, !.parent = parent,
                                         !.category = category,
                                         !.explanation = explanation,
                                         !.snippet = chatSnippet,
                                         !.result = "created", !.saved = w,
                                         !.error = WriteError(w), !.at = t1]

AddConcept(name, category, parent, explanation, chatSnippet, t1, t2, w) ==
  LET existing == getConceptByName(concepts, name)
  IN /\ loaded' = TRUE
     /\ tree' = EmptyForest
     /\ UNCHANGED <<tenants, scanner, calls, walk>>
     /\ IF existing # 0
          THEN /\ Truthy(chatSnippet) =>
                    Len(concepts[existing].chatSnippets) < MaxSnippets
               /\ UpdateBody([NoCall EXCEPT !.op = "addConcept", !.name = name,
                                             !.parent = parent,
                                             !.category = category,
                                             !.explanation = explanation,
                                             !.snippet = chatSnippet],
                             concepts[existing].id, Undefined, Undefined,
                             chatSnippet, NoLocations, t1, t2, w, "merged")
               /\ UNCHANGED nextId
          ELSE /\ nextId <= MaxIds
               /\ concepts' = Append(concepts,
                    NewConcept(nextId, name, category, parent, explanation,
                               chatSnippet, t1))
               /\ nextId' = nextId + 1
               /\ save(concepts', t2, w)
               /\ last' = [NoCall EXCEPT !.op = "addConcept", !.id = nextId,
                                         !.name = name, !.parent = parent,
                                         !.category = category,
                                         !.explanation = explanation,
                                         !.snippet = chatSnippet,
                                         !.result = "created", !.saved = w,
                                         !.error = WriteError(w), !.at = t1]

(***************************************************************************)
(* The entry points that create a concept by hand: the add_concept tool    *)
(* (handleAddConcept), whose input schema takes any string as name, and    *)
(* POST /api/concepts, which answers 400 to a falsy name, category or      *)
(* explanation.  Both refuse a name that getConceptByName finds.           *)
(***************************************************************************)
Refused(op, name, parent, result, t) ==
  /\ concepts' = concepts
  /\ tree' = EmptyForest
  /\ UNCHANGED <<tenants, scanner, calls, walk>>
  /\ last' = [NoCall EXCEPT !.op = op, !.name = name, !.parent = parent,
                            !.result = result, !.error = result, !.at = t]
  /\ UNCHANGED nextId

HandleAddConcept(name, category, explanation, parent, t, w) ==
  IF getConceptByName(concepts, name) # 0
    THEN /\ Refused("add_concept", name, parent, "exists", t)
         /\ loaded' = TRUE
         /\ NoSave(t)
    ELSE AddConcept(name, category, parent, explanation, Undefined, t, t, w)

PostConcept(name, category, explanation, parent, t, w) ==
  IF ~Truthy(name) \/ ~Truthy(category) \/ ~Truthy(explanation)
    THEN /\ Refused("POST /api/concepts", name, parent, "badRequest", t)
         /\ now' = t
         /\ UNCHANGED <<loaded, lastUpdated, disk>>
    ELSE IF getConceptByName(concepts, name) # 0
      THEN /\ Refused("POST /api/concepts", name, parent, "exists", t)
           /\ loaded' = TRUE
           /\ NoSave(t)
      ELSE AddConcept(name, category, parent, explanation, Undefined, t, t, w)

(***************************************************************************)
(* handleExtractConcepts, POST /api/extract: the extractor throws or       *)
(* answers with a list of extracted concepts, which                        *)
(* addConceptsFromExtraction adds one after the other.                     *)
(***************************************************************************)
\* the store after addConcept(extracted, chatSnippet) on the store st
AddedConcept(st, extracted, chatSnippet, t) ==
  LET existing == getConceptByName(st.concepts, extracted.name)
  IN IF existing # 0
       THEN [st EXCEPT !.concepts[existing] =
               UpdatedConcept(@, Undefined, Undefined, chatSnippet, NoLocations, t)]
       ELSE [concepts |-> Append(st.concepts,
                            NewConcept(st.nextId, extracted.name,
                                       extracted.category, extracted.parent,
                                       extracted.explanation, chatSnippet, t)),
             nextId |-> st.nextId + 1]

\* the loop of addConceptsFromExtraction, from entry k on
RECURSIVE AddLoop(_, _, _, _, _)
AddLoop(batch, k, chatSnippet, t, st) ==
  IF k > Len(batch) THEN st
  ELSE AddLoop(batch, k + 1, chatSnippet, t,
               AddedConcept(st, batch[k], chatSnippet, t))

\* the call once the extractor has ended as result and batch is what goes
\* to addConceptsFromExtraction; a write that is rejected ends the loop at
\* its first entry
ExtractOutcome(result, batch, chatSnippet, t, w) ==
  LET call == [NoCall EXCEPT !.op = "extractConcepts", !.result = result,
                             !.snippet = chatSnippet, !.at = t]
      added == IF w = "ok" THEN batch ELSE SubSeq(batch, 1, 1)
      st == AddLoop(added, 1, chatSnippet, t,
                    [concepts |-> concepts, nextId |-> nextId])
  IN /\ tree' = EmptyForest
     /\ UNCHANGED <<tenants, scanner, calls, walk>>
     /\ IF batch = <<>>
          THEN /\ now' = t
               /\ last' = [call EXCEPT !.error = IF result = "extractionFailed"
                                                   THEN "extraction" ELSE "none"]
               /\ UNCHANGED <<loaded, concepts, lastUpdated, disk, nextId>>
          ELSE /\ st.nextId <= MaxIds + 1
               /\ \A i \in 1..Len(st.concepts) :
                    Len(st.concepts[i].chatSnippets) <= MaxSnippets
               /\ loaded' = TRUE
               /\ concepts' = st.concepts
               /\ nextId' = st.nextId
               /\ save(concepts', t, w)
               /\ last' = [call EXCEPT !.saved = w, !.error = WriteError(w),
                                       !.body = [NoBody EXCEPT
                                                   !.count = Len(added)]]

ExtractResult(outcome, extracted) ==
  IF outcome = "throws" THEN "extractionFailed"
  ELSE IF extracted = <<>> THEN "noConcepts" ELSE "extracted"

ExtractConceptsKeepingPartial(outcome, extracted, chatSnippet, t, w) ==
  ExtractOutcome(ExtractResult(outcome, extracted), extracted, chatSnippet, t, w)

\* outcome is how the extractor ends, extracted what it has parsed
ExtractConcepts(outcome, extracted, chatSnippet, t, w) ==
  LET result == ExtractResult(outcome, extracted)
  IN ExtractOutcome(result, IF result = "extracted" THEN extracted ELSE <<>>,
                    chatSnippet, t, w)

(***************************************************************************)
(* deleteConcept(id)                                                       *)
(***************************************************************************)
DeleteConcept(id, t2, w) ==
  LET index == IndexById(concepts, id)
  IN /\ loaded' = TRUE
     /\ tree' = EmptyForest
     /\ UNCHANGED <<tenants, scanner, calls, walk>>
     /\ UNCHANGED nextId
     /\ IF index = 0
          THEN /\ concepts' = concepts
               /\ NoSave(t2)
               /\ last' = [NoCall EXCEPT !.op = "deleteConcept", !.id = id,
                                         !.result = "false", !.at = t2]
          ELSE /\ concepts' = Splice(concepts, index)
               /\ save(concepts', t2, w)
               /\ last' = [NoCall EXCEPT !.op = "deleteConcept", !.id = id,
                                         !.result = "deleted", !.saved = w,
                                         !.error = WriteError(w), !.at = t2]

(***************************************************************************)
(* updateConceptParent(id, parent)                                         *)
(***************************************************************************)
\* mutant of ParentOutcome: the parent name is not looked up
ParentOutcomeNoLookup(cs, id, parent) ==
  IF IndexById(cs, id) = 0 THEN "notFoundId"
  ELSE IF Truthy(parent) /\ wouldCreateCycle(cs, id, parent) THEN "cycle"
  ELSE "reparented"

ParentOutcome(cs, id, parent) ==
  IF IndexById(cs, id) = 0 THEN "notFoundId"
  ELSE IF Truthy(parent) /\ IndexByExactName(cs, parent) = 0 THEN "notFoundParent"
  ELSE IF Truthy(parent) /\ wouldCreateCycle(cs, id, parent) THEN "cycle"
  ELSE "reparented"

\* mutant of Reparented: lastSeen is reset to the time of creation
ReparentedStale(c, parent, t) ==
  [c EXCEPT !.parent = IF Truthy(parent) THEN parent ELSE Undefined,
            !.lastSeen = c.firstSeen]

Reparented(c, parent, t) ==
  [c EXCEPT !.parent = IF Truthy(parent) THEN parent ELSE Undefined,
            !.lastSeen = t]

\* mutant of UpdateConceptParent: lastSeen is bumped before the checks
UpdateConceptParentEager(id, parent, t1, t2, w) ==
  LET index == IndexById(concepts, id)
      outcome == ParentOutcome(concepts, id, parent)
  IN /\ loaded' = TRUE
     /\ tree' = EmptyForest
     /\ UNCHANGED <<tenants, scanner, calls, walk>>
     /\ UNCHANGED nextId
     /\ IF outcome # "reparented"
          THEN /\ concepts' = IF index = 0 THEN concepts
                              ELSE [concepts EXCEPT ![index].lastSeen = t1]
               /\ NoSave(t1)
               /\ last' = [NoCall EXCEPT !.op = "updateConceptParent", !.id = id,
                                         !.parent = parent, !.result = outcome,
                                         !.error = IF outcome = "cycle"
                                                     THEN "circular"
                                                     ELSE "notFound",
                                         !.at = t1]
          ELSE /\ concepts' = [concepts EXCEPT ![index] = Reparented(@, parent, t1)]
               /\ save(concepts', t2, w)
               /\ last' = [NoCall EXCEPT !.op = "updateConceptParent", !.id = id,
                                         !.parent = parent, !.result = outcome,
                                         !.saved = w, !.error = WriteError(w),
                                         !.at = t1]

UpdateConceptParent(id, parent, t1, t2, w) ==
  LET index == IndexById(concepts, id)
      outcome == ParentOutcome(concepts, id, parent)
  IN /\ loaded' = TRUE
     /\ tree' = EmptyForest
     /\ UNCHANGED <<tenants, scanner, calls, walk>>
     /\ UNCHANGED nextId
     /\ IF outcome # "reparented"
          THEN /\ concepts' = concepts
               /\ NoSave(t1)
               /\ last' = [NoCall EXCEPT !.op = "updateConceptParent", !.id = id,
                                         !.parent = parent, !.result = outcome,
                                         !.error = IF outcome = "cycle"
                                                     THEN "circular"
                                                     ELSE "notFound",
                                         !.at = t1]
          ELSE /\ concepts' = [concepts EXCEPT ![index] = Reparented(@, parent, t1)]
               /\ save(concepts', t2, w)
               /\ last' = [NoCall EXCEPT !.op = "updateConceptParent", !.id = id,
                                         !.parent = parent, !.result = outcome,
                                         !.saved = w, !.error = WriteError(w),
                                         !.at = t1]

(***************************************************************************)
(* buildTree(concepts) of ExportService.  A node                           *)
(* is identified by its key in nodeMap; concept[n] is the index of the     *)
(* concept the node of key n holds, children[n] the keys of the nodes      *)
(* pushed to its children array, roots the keys of the nodes pushed to     *)
(* roots.                                                                  *)
(***************************************************************************)
\* first loop: nodeMap.set(concept.name, {concept, children: []})
NodeMap(cs) ==
  LET keys == {cs[i].name : i \in 1..Len(cs)}
  IN [built |-> TRUE, roots |-> <<>>, nodes |-> keys,
      concept |-> [n \in keys |->
                     CHOOSE i \in 1..Len(cs) :
                       cs[i].name = n /\ \A j \in (i + 1)..Len(cs) : cs[j].name # n],
      children |-> [n \in keys |-> <<>>]]

\* second loop, from concept i on
RECURSIVE AttachLoop(_, _, _)
AttachLoop(cs, i, f) ==
  IF i > Len(cs) THEN f
  ELSE LET c == cs[i]
       IN AttachLoop(cs, i + 1,
            IF Truthy(c.parent) /\ c.parent \in f.nodes
              THEN [f EXCEPT !.children[c.parent] = Append(@, c.name)]
              ELSE [f EXCEPT !.roots = Append(@, c.name)])

buildTree(cs) == AttachLoop(cs, 1, NodeMap(cs))

(***************************************************************************)
(* GET /api/concepts/tree builds its forest in the handler, with a nodeMap *)
(* and a roots array of its own.                                           *)
(***************************************************************************)
\* first loop of the handler
TreeNodeMap(cs) ==
  LET keys == {cs[i].name : i \in 1..Len(cs)}
      lastOf(n) == CHOOSE i \in 1..Len(cs) :
                     cs[i].name = n /\ \A j \in (i + 1)..Len(cs) : cs[j].name # n
  IN [built |-> TRUE, roots |-> <<>>, nodes |-> keys,
      concept |-> [n \in keys |-> lastOf(n)],
      children |-> [n \in keys |-> <<>>]]

\* mutant of TreeAttachLoop: a child goes in front of its siblings
RECURSIVE TreeAttachLoopInFront(_, _, _)
TreeAttachLoopInFront(cs, i, f) ==
  IF i > Len(cs) THEN f
  ELSE TreeAttachLoopInFront(cs, i + 1,
         IF Truthy(cs[i].parent) /\ cs[i].parent \in f.nodes
           THEN [f EXCEPT !.children[cs[i].parent] = <<cs[i].name>> \o @]
           ELSE [f EXCEPT !.roots = Append(@, cs[i].name)])

\* second loop of the handler, from concept i on
RECURSIVE TreeAttachLoop(_, _, _)
TreeAttachLoop(cs, i, f) ==
  IF i > Len(cs) THEN f
  ELSE TreeAttachLoop(cs, i + 1,
         IF Truthy(cs[i].parent) /\ cs[i].parent \in f.nodes
           THEN [f EXCEPT !.children[cs[i].parent] = Append(@, cs[i].name)]
           ELSE [f EXCEPT !.roots = Append(@, cs[i].name)])

\* data.tree of the response
conceptsTree(cs) == TreeAttachLoop(cs, 1, TreeNodeMap(cs))

\* GET /api/concepts/tree
GetTree(t) ==
  /\ loaded' = TRUE
  /\ tree' = conceptsTree(concepts)
  /\ UNCHANGED <<tenants, scanner, calls, walk>>
  /\ NoSave(t)
  /\ last' = [NoCall EXCEPT !.op = "getTree", !.result = "tree", !.at = t]
  /\ UNCHANGED <<concepts, nextId>>

(***************************************************************************)
(* ExportService.exportConcepts with format json.  The call returns the    *)
(* text of the document; body is what JSON.parse makes of it.              *)
(***************************************************************************)
\* the concepts the export is about
Selected(cs, conceptIds) ==
  LET listed(c) == \E k \in 1..Len(conceptIds.value) : conceptIds.value[k] = c.id
  IN IF conceptIds.given /\ Len(conceptIds.value) # 0
       THEN SelectSeq(cs, listed)
       ELSE cs

ExportKeys(includeSnippets, includeCodeLocations) ==
  {"id", "name", "category", "parent", "explanation", "firstSeen", "lastSeen"}
    \cup (IF includeSnippets # False THEN {"chatSnippets"} ELSE {})
    \cup (IF includeCodeLocations # False THEN {"codeLocations"} ELSE {})

ExportRecordWithoutFalsyParent(c, includeSnippets, includeCodeLocations) ==
  [k \in ExportKeys(includeSnippets, includeCodeLocations)
          \ (IF Truthy(c.parent) THEN {} ELSE {"parent"}) |-> c[k]]

\* the object built for concept c
ExportRecord(c, includeSnippets, includeCodeLocations) ==
  [k \in ExportKeys(includeSnippets, includeCodeLocations) |-> c[k]]

exportAsJson(cs, includeSnippets, includeCodeLocations, t) ==
  [exportedAt |-> t,
   count |-> Len(cs),
   concepts |-> [i \in 1..Len(cs) |->
                   stringify(ExportRecord(cs[i], includeSnippets,
                                          includeCodeLocations))]]

ExportConcepts(conceptIds, includeSnippets, includeCodeLocations, t) ==
  /\ loaded' = TRUE
  /\ tree' = EmptyForest
  /\ UNCHANGED <<tenants, scanner, calls, walk>>
  /\ NoSave(t)
  /\ last' = [NoCall EXCEPT
                !.op = "exportConcepts", !.ids = conceptIds,
                !.result = "exported", !.at = t,
                !.body = exportAsJson(Selected(concepts, conceptIds),
                                      includeSnippets, includeCodeLocations, t)]
  /\ UNCHANGED <<concepts, nextId>>

(***************************************************************************)
(* ExportService.exportConcepts with format markdown.  The text is the     *)
(* array lines; a line is a record of its kind, the number it shows (n),   *)
(* the name of the concept it is rendered for (of) and its text.  The text *)
(* of a chat snippet is a sequence of characters.                          *)
(***************************************************************************)
Line(kind, n, of, text) == [kind |-> kind, n |-> n, of |-> of, text |-> text]

Blank == Line("blank", 0, "", "")

\* the clock readings of one day
TicksPerDay == 2

\* Date.prototype.toLocaleDateString: the day of a timestamp
toLocaleDateString(t) == t \div TicksPerDay

\* content.replace(/\n/g, ' ')
replaceNewlines(content) ==
  [i \in 1..Len(content) |-> IF content[i] = "\n" THEN " " ELSE content[i]]

\* the line of one chat snippet: the content is cut after 100 characters
ReferenceLine(snippet, of) ==
  LET content == IF Len(snippet.content) > 100
                   THEN SubSeq(snippet.content, 1, 100) \o <<".", ".", ".">>
                   ELSE snippet.content
  IN Line("reference", toLocaleDateString(snippet.timestamp), of,
          replaceNewlines(content))

\* mutant of References: every chat snippet gets a line
ReferencesUncut(concept, includeSnippets) ==
  IF includeSnippets # False /\ Len(concept.chatSnippets) > 0
    THEN <<Line("referencesTitle", 0, concept.name, "")>>
         \o [k \in 1..Len(concept.chatSnippets) |->
               ReferenceLine(concept.chatSnippets[k], concept.name)]
         \o (IF Len(concept.chatSnippets) > 3
               THEN <<Line("more", Len(concept.chatSnippets) - 3,
                           concept.name, "")>>
               ELSE <<>>)
         \o <<Blank>>
    ELSE <<>>

\* the chat snippets of renderNode: chatSnippets.slice(0, 3), then how many
\* more there are
References(concept, includeSnippets) ==
  IF includeSnippets # False /\ Len(concept.chatSnippets) > 0
    THEN <<Line("referencesTitle", 0, concept.name, "")>>
         \o [k \in 1..(IF Len(concept.chatSnippets) < 3
                         THEN Len(concept.chatSnippets) ELSE 3) |->
               ReferenceLine(concept.chatSnippets[k], concept.name)]
         \o (IF Len(concept.chatSnippets) > 3
               THEN <<Line("more", Len(concept.chatSnippets) - 3,
                           concept.name, "")>>
               ELSE <<>>)
         \o <<Blank>>
    ELSE <<>>

\* the code locations of renderNode: one line for each
CodeLocationLines(concept, includeCodeLocations) ==
  IF includeCodeLocations # False /\ Len(concept.codeLocations) > 0
    THEN <<Line("locationsTitle", 0, concept.name, "")>>
         \o [k \in 1..Len(concept.codeLocations) |->
               Line("location", 0, concept.name, concept.codeLocations[k])]
         \o <<Blank>>
    ELSE <<>>

\* renderNode of the node of key in forest f over the concepts cs
RECURSIVE renderNode(_, _, _, _, _, _)
RECURSIVE RenderChildren(_, _, _, _, _, _, _)
renderNode(f, cs, key, level, includeSnippets, includeCodeLocations) ==
  LET concept == cs[f.concept[key]]
  IN <<Line("heading", IF level < 6 THEN level ELSE 6, concept.name,
            concept.name), Blank>>
     \o (IF Truthy(concept.parent)
           THEN <<Line("partOf", 0, concept.name, concept.parent), Blank>>
           ELSE <<>>)
     \o <<Line("explanation", 0, concept.name, concept.explanation), Blank>>
     \o CodeLocationLines(concept, includeCodeLocations)
     \o References(concept, includeSnippets)
     \o RenderChildren(f, cs, f.children[key], 1, level + 1, includeSnippets,
                       includeCodeLocations)

\* for (const child of node.children) this.renderNode(child, ...), from
\* child k on
RenderChildren(f, cs, children, k, level, includeSnippets, includeCodeLocations) ==
  IF k > Len(children) THEN <<>>
  ELSE renderNode(f, cs, children[k], level, includeSnippets,
                  includeCodeLocations)
       \o RenderChildren(f, cs, children, k + 1, level, includeSnippets,
                         includeCodeLocations)

\* the recursion of renderNode from the node of key does not end: a node
\* is met again below itself
RECURSIVE RendersForever(_, _, _)
RendersForever(f, key, above) ==
  \/ key \in above
  \/ \E k \in 1..Len(f.children[key]) :
       RendersForever(f, f.children[key][k], above \cup {key})

categories == <<"language", "library", "pattern", "architecture">>

\* the section of the category of number c: nothing when no root has it
RECURSIVE CategorySections(_, _, _, _, _)
CategorySections(f, cs, c, includeSnippets, includeCodeLocations) ==
  IF c > Len(categories) THEN <<>>
  ELSE LET ofCategory(key) == cs[f.concept[key]].category = categories[c]
           categoryNodes == SelectSeq(f.roots, ofCategory)
       IN (IF Len(categoryNodes) = 0 THEN <<>>
           ELSE <<Line("category", 0, "", categories[c]), Blank>>
                \o RenderChildren(f, cs, categoryNodes, 1, 3, includeSnippets,
                                  includeCodeLocations)
                \o <<Blank>>)
          \o CategorySections(f, cs, c + 1, includeSnippets,
                              includeCodeLocations)

exportAsMarkdown(cs, includeSnippets, includeCodeLocations, t) ==
  <<Line("title", 0, "", "# Concept Knowledge Base"), Blank,
    Line("exported", toLocaleDateString(t), "", ""), Blank,
    Line("total", Len(cs), "", ""), Blank,
    Line("rule", 0, "", "---"), Blank>>
  \o CategorySections(buildTree(cs), cs, 1, includeSnippets,
                      includeCodeLocations)

\* exportConcepts({format: 'markdown', ...}): getAllConcepts(), the filter
\* and exportAsMarkdown; a recursion that does not end is a RangeError
ExportMarkdown(conceptIds, includeSnippets, includeCodeLocations, t) ==
  LET all == IF loaded THEN concepts ELSE LoadedStore(disk, t).concepts
      cs == Selected(all, conceptIds)
      f == buildTree(cs)
      overflow == \E k \in 1..Len(f.roots) : RendersForever(f, f.roots[k], {})
  IN /\ loaded' = TRUE
     /\ concepts' = all
     /\ lastUpdated' = IF loaded THEN lastUpdated
                       ELSE LoadedStore(disk, t).lastUpdated
     /\ now' = t
     /\ tree' = EmptyForest
     /\ UNCHANGED <<tenants, scanner, calls, walk>>
     /\ last' = [NoCall EXCEPT
                   !.op = "exportMarkdown", !.ids = conceptIds,
                   !.result = IF overflow THEN "rangeError" ELSE "exported",
                   !.error = IF overflow THEN "rangeError" ELSE "none",
                   !.at = t,
                   !.includeSnippets = includeSnippets,
                   !.includeCodeLocations = includeCodeLocations,
                   !.lines = IF overflow THEN <<>>
                             ELSE exportAsMarkdown(cs, includeSnippets,
                                                   includeCodeLocations, t)]
     /\ UNCHANGED <<disk, nextId>>

(***************************************************************************)
(* handleScanCodebase: scans the concept of conceptId, or all concepts     *)
(* when conceptId is 0 (omitted), and stores the locations found.  found   *)
(* maps the position of a concept to the locations the scanner returned    *)
(* for it, ws to the outcome of the write of its update.                   *)
(***************************************************************************)
\* the loop over the results, from position i on; st is the store, the
\* document and the counters so far
RECURSIVE ScanLoop(_, _, _, _, _, _)
ScanLoop(i, scanned, found, ws, t, st) ==
  IF i > Len(st.concepts) THEN st
  ELSE IF i \notin scanned \/ found[i] = <<>>
    THEN ScanLoop(i + 1, scanned, found, ws, t, st)
    ELSE LET cs == [st.concepts EXCEPT ![i] =
                      UpdatedConcept(@, Undefined, Undefined, Undefined,
                                     Locations(found[i]), t)]
         IN ScanLoop(i + 1, scanned, found, ws, t,
              [concepts |-> cs,
               lastUpdated |-> t,
               disk |-> Written(st.disk, cs, t, ws[i]),
               updatedCount |-> st.updatedCount + IF ws[i] = "ok" THEN 1 ELSE 0,
               saved |-> IF ws[i] # "ok" THEN ws[i]
                         ELSE IF st.saved = "none" THEN "ok" ELSE st.saved])

ScanCodebase(conceptId, found, ws, t) ==
  LET index == IndexById(concepts, conceptId)
      call == [NoCall EXCEPT !.op = "scanCodebase", !.id = conceptId, !.at = t]
  IN /\ loaded' = TRUE
     /\ tree' = EmptyForest
     /\ UNCHANGED <<tenants, scanner, calls, walk>>
     /\ UNCHANGED nextId
     /\ IF conceptId # 0 /\ index = 0
          THEN /\ concepts' = concepts
               /\ NoSave(t)
               /\ last' = [call EXCEPT !.result = "notFoundId",
                                       !.error = "notFound"]
          ELSE LET scanned == IF conceptId = 0 THEN 1..Len(concepts) ELSE {index}
                   st == ScanLoop(1, scanned, found, ws, t,
                           [concepts |-> concepts, lastUpdated |-> lastUpdated,
                            disk |-> disk, updatedCount |-> 0, saved |-> "none"])
               IN /\ concepts' = st.concepts
                  /\ disk' = st.disk
                  /\ lastUpdated' = IF loaded \/ st.saved # "none"
                                      THEN st.lastUpdated ELSE t
                  /\ now' = t
                  /\ last' = [call EXCEPT !.result = "success",
                                          !.saved = st.saved,
                                          !.body = [NoBody EXCEPT
                                                      !.count = st.updatedCount]]

(***************************************************************************)
(* ScannerService.  The project is the sequence of the entries below       *)
(* rootPath in the order readdir lists them; the entry of the empty path   *)
(* is rootPath itself.  kind is "dir", "file" or "other" (a symbolic link, *)
(* a socket); readable tells whether readdir or readFile succeeds; lines   *)
(* is the content of a file split at the line breaks.                      *)
(***************************************************************************)
Entry(path, kind, readable, lines) ==
  [path |-> path, kind |-> kind, readable |-> readable, lines |-> lines]

defaultInclude ==
  <<<<"t", "s">>, <<"t", "s", "x">>, <<"j", "s">>, <<"j", "s", "x">>,
    <<"p", "y">>, <<"g", "o">>, <<"r", "s">>, <<"j", "a", "v", "a">>,
    <<"c", "p", "p">>, <<"c">>, <<"h">>>>

defaultExclude ==
  <<<<"n", "o", "d", "e", "_", "m", "o", "d", "u", "l", "e", "s">>,
    <<"d", "i", "s", "t">>, <<"b", "u", "i", "l", "d">>,
    <<".", "g", "i", "t">>,
    <<"_", "_", "p", "y", "c", "a", "c", "h", "e", "_", "_">>,
    <<"t", "a", "r", "g", "e", "t">>, <<"v", "e", "n", "d", "o", "r">>>>

\* options.includePatterns || this.defaultInclude: an array is truthy, also
\* an empty one
OrDefault(option, default) == IF option.given THEN option.value ELSE default

\* entry.name.startsWith('.')
startsWithDot(name) == Len(name) > 0 /\ name[1] = "."

\* path.extname(entry.name).slice(1): what follows the last dot, nothing
\* when there is no dot or the only dot is the first character
extname(name) ==
  LET dots == {k \in 2..Len(name) : name[k] = "."}
  IN IF dots = {} THEN <<>>
     ELSE SubSeq(name, (CHOOSE k \in dots : \A j \in dots : j <= k) + 1,
                 Len(name))

\* exclude.some(pattern => entry.name === pattern || entry.name.startsWith('.'))
Excluded(name, exclude) ==
  \E k \in 1..Len(exclude) : name = exclude[k] \/ startsWithDot(name)

\* the positions in the project of the entries readdir(dir) lists
Listing(project, dir) ==
  SelectSeq([k \in 1..Len(project) |-> k],
            LAMBDA k : /\ Len(project[k].path) = Len(dir) + 1
                       /\ SubSeq(project[k].path, 1, Len(dir)) = dir)

\* fs.readdir(dir) throws
ReaddirThrows(project, dir) ==
  ~\E k \in 1..Len(project) :
     /\ project[k].path = dir
     /\ project[k].kind = "dir"
     /\ project[k].readable

\* walkDirectory(dir, files, include, exclude): the paths below rootPath it
\* pushes to files; WalkEntries is its loop from entry i of the listing on
RECURSIVE walkDirectory(_, _, _, _), WalkEntries(_, _, _, _, _)
walkDirectory(project, dir, include, exclude) ==
  IF ReaddirThrows(project, dir) THEN <<>>
  ELSE WalkEntries(project, Listing(project, dir), 1, include, exclude)

WalkEntries(project, listing, i, include, exclude) ==
  IF i > Len(listing) THEN <<>>
  ELSE LET entry == project[listing[i]]
           name == entry.path[Len(entry.path)]
           pushed ==
             IF Excluded(name, exclude) THEN <<>>
             ELSE IF entry.kind = "dir"
               THEN walkDirectory(project, entry.path, include, exclude)
             ELSE IF entry.kind = "file"
                     /\ \E k \in 1..Len(include) : include[k] = extname(name)
               THEN <<entry.path>>
             ELSE <<>>
       IN pushed \o WalkEntries(project, listing, i + 1, include, exclude)

\* getFiles(options): path.join(rootPath, ...) of every path pushed
getFiles(project, rootPath, include, exclude) ==
  LET files == walkDirectory(project, <<>>, OrDefault(include, defaultInclude),
                             OrDefault(exclude, defaultExclude))
  IN [k \in 1..Len(files) |-> rootPath \o files[k]]

\* path.relative(rootPath, file)
relative(rootPath, file) == SubSeq(file, Len(rootPath) + 1, Len(file))

\* the characters of a name of the model
Chars(name) ==
  CASE name = "" -> <<>>
    [] name = "ab" -> <<"a", "b">>
    [] name = "seed" -> <<"s", "e", "e", "d">>
    [] OTHER -> <<name>>

\* \w of a regular expression
WordChars ==
  {"a", "b", "c", "d", "e", "f", "g", "h", "i", "j", "k", "l", "m", "n", "o",
   "p", "q", "r", "s", "t", "u", "v", "w", "x", "y", "z",
   "A", "B", "C", "D", "E", "F", "G", "H", "I", "J", "K", "L", "M", "N", "O",
   "P", "Q", "R", "S", "T", "U", "V", "W", "X", "Y", "Z",
   "0", "1", "2", "3", "4", "5", "6", "7", "8", "9", "_"}

\* \b matches between the characters p and p + 1 of line
WordBoundary(line, p) ==
  (p >= 1 /\ line[p] \in WordChars)
    # (p < Len(line) /\ line[p + 1] \in WordChars)

\* new RegExp(`\\b${escapeRegex(name)}\\b`, 'gi').test(line)
Mentions(line, name) ==
  \E p \in 0..(Len(line) - Len(name)) :
    /\ WordBoundary(line, p)
    /\ WordBoundary(line, p + Len(name))
    /\ \A k \in 1..Len(name) :
         toLowerCase(line[p + k]) = toLowerCase(name[k])

\* the entry of the project at full path file, which getFiles returned
EntryAt(project, rootPath, file) ==
  project[CHOOSE k \in 1..Len(project) :
            project[k].path = relative(rootPath, file)]

\* mutant of FileLocations: the line numbers start at 0
FileLocationsFromZero(entry, rootPath, file, name) ==
  IF ~entry.readable THEN <<>>
  ELSE LET matching == SelectSeq([i \in 1..Len(entry.lines) |-> i],
                                 LAMBDA i : Mentions(entry.lines[i], name))
       IN [k \in 1..Len(matching) |->
             [file |-> relative(rootPath, file), line |-> matching[k] - 1]]

\* the body of the loop over the files in scanForConcept: the locations
\* pushed for one file, none when readFile throws
FileLocations(entry, rootPath, file, name) ==
  IF ~entry.readable THEN <<>>
  ELSE LET matching == SelectSeq([i \in 1..Len(entry.lines) |-> i],
                                 LAMBDA i : Mentions(entry.lines[i], name))
       IN [k \in 1..Len(matching) |->
             [file |-> relative(rootPath, file), line |-> matching[k]]]

RECURSIVE ScanFiles(_, _, _, _, _)
ScanFiles(project, rootPath, files, k, name) ==
  IF k > Len(files) THEN <<>>
  ELSE FileLocations(EntryAt(project, rootPath, files[k]), rootPath, files[k],
                     name)
         \o ScanFiles(project, rootPath, files, k + 1, name)

scanForConcept(project, concept, rootPath, include, exclude) ==
  ScanFiles(project, rootPath, getFiles(project, rootPath, include, exclude),
            1, Chars(concept.name))

\* scanAllConcepts(concepts, options): the Map, as a function of the ids
scanAllConcepts(project, cs, rootPath, include, exclude) ==
  LET found == [i \in 1..Len(cs) |->
                  scanForConcept(project, cs[i], rootPath, include, exclude)]
      hits == {i \in 1..Len(cs) : Len(found[i]) > 0}
  IN [id \in {cs[i].id : i \in hits} |->
        found[CHOOSE i \in hits :
                cs[i].id = id /\ \A j \in hits : cs[j].id = id => j <= i]]

\* the directory the model scans
RootPath == <<<<"p">>>>

\* a call of scanAllConcepts on the concepts of the store
ScanAllConcepts(include, exclude) ==
  /\ scanner' = [scanner EXCEPT
                   !.called = TRUE,
                   !.include = include,
                   !.exclude = exclude,
                   !.files = getFiles(scanner.project, RootPath, include, exclude),
                   !.results = scanAllConcepts(scanner.project, concepts,
                                               RootPath, include, exclude),
                   !.error = "none"]
  /\ last' = [NoCall EXCEPT !.op = "scanAllConcepts", !.result = "scanned",
                            !.at = now]
  /\ tree' = EmptyForest
  /\ UNCHANGED <<loaded, concepts, lastUpdated, disk, now, nextId, tenants,
                 calls, walk>>

(***************************************************************************)
(* The remote server: GET /sse?token=... validates the token and serves    *)
(* the connection from getStorageForUser(token).  A token is the sequence  *)
(* of its characters.                                                      *)
(***************************************************************************)
TokenChars ==
  {"a", "b", "c", "d", "e", "f", "g", "h", "i", "j", "k", "l", "m", "n", "o",
   "p", "q", "r", "s", "t", "u", "v", "w", "x", "y", "z",
   "A", "B", "C", "D", "E", "F", "G", "H", "I", "J", "K", "L", "M", "N", "O",
   "P", "Q", "R", "S", "T", "U", "V", "W", "X", "Y", "Z",
   "0", "1", "2", "3", "4", "5", "6", "7", "8", "9", "-"}

\* /^[a-zA-Z0-9-]{8,64}$/
isValidUserToken(token) ==
  /\ Len(token) \in 8..64
  /\ \A k \in 1..Len(token) : token[k] \in TokenChars

storagePathShared(token) == <<"data", "users", "concepts.json">>

\* path.join(basePath, 'users', userToken) and, in the constructor of
\* StorageService, path.join(basePath, 'concepts.json'): the segments.  Two
\* paths name the same file when their segments are equal, as on a file
\* system that is case sensitive.
storagePath(token) == <<"data", "users", token, "concepts.json">>

\* a StorageService that is not serving: its token and its store
Storage(token, isLoaded, cs, stamp) ==
  [token |-> token, loaded |-> isLoaded, concepts |-> cs, lastUpdated |-> stamp]

\* userStorages and the documents once the storage that is being served is
\* put back
ParkedStorages ==
  IF tenants.active = NoToken THEN tenants.storages
  ELSE {s \in tenants.storages : s.token # tenants.active}
         \cup {Storage(tenants.active, loaded, concepts, lastUpdated)}

ParkedFiles ==
  IF tenants.active = NoToken THEN tenants.files
  ELSE {f \in tenants.files : f.path # storagePath(tenants.active)}
         \cup {[path |-> storagePath(tenants.active), document |-> disk]}

\* getStorageForUser(userToken): the storage of the map, or a new one
getStorageForUser(storages, token) ==
  IF \E s \in storages : s.token = token
    THEN CHOOSE s \in storages : s.token = token
    ELSE Storage(token, FALSE, <<>>, 0)

FileAt(files, path) ==
  IF \E f \in files : f.path = path
    THEN (CHOOSE f \in files : f.path = path).document
    ELSE NoDocument

Connect(token) ==
  IF ~isValidUserToken(token)
    THEN /\ last' = [NoCall EXCEPT !.op = "connect", !.result = "invalidToken",
                                   !.error = "invalidToken", !.at = now]
         /\ UNCHANGED <<loaded, concepts, lastUpdated, disk, now, nextId, tree,
                        tenants, scanner, calls, walk>>
    ELSE LET storage == getStorageForUser(ParkedStorages, token)
         IN /\ loaded' = storage.loaded
            /\ concepts' = storage.concepts
            /\ lastUpdated' = storage.lastUpdated
            /\ disk' = FileAt(ParkedFiles, storagePath(token))
            /\ tenants' = [active |-> token,
                           storages |-> ParkedStorages \cup {storage},
                           files |-> ParkedFiles]
            /\ tree' = EmptyForest
            /\ last' = [NoCall EXCEPT !.op = "connect", !.result = "connected",
                                      !.at = now]
            /\ UNCHANGED <<now, nextId, scanner, calls, walk>>

(***************************************************************************)
(* addConcept(extracted) taken apart at its awaits.  BeginAdd runs load()  *)
(* up to its first await, FinishLoad is the rest of load() once readFile   *)
(* has ended, FindConcept is getConceptByName, whose answer the caller     *)
(* gets at its await, PushConcept runs from there to the call of save(),   *)
(* SaveStore is save() up to the call of fs.writeFile and WriteLands the   *)
(* end of that write.                                                      *)
(***************************************************************************)
\* if (this.store) return this.store; else the read begins
BeginAdd(o, name) ==
  /\ calls.at[o] = "idle"
  /\ calls' = IF calls.current # 0
                THEN [calls EXCEPT !.at[o] = "loaded",
                                   !.store[o] = calls.current,
                                   !.name[o] = name]
                ELSE [calls EXCEPT !.at[o] = "reading", !.name[o] = name]
  /\ last' = [NoCall EXCEPT !.op = "load", !.id = o, !.name = name, !.at = now]
  /\ UNCHANGED <<loaded, concepts, lastUpdated, disk, now, nextId, tree,
                 tenants, scanner, walk>>

\* this.store = ConceptStore.parse(JSON.parse(data)), or the empty store of
\* the catch block; return this.store
FinishLoad(o) ==
  LET object == LoadedStore(disk, now)
      created == Len(calls.objects) + 1
  IN /\ calls.at[o] = "reading"
     /\ calls' = [calls EXCEPT !.objects = Append(@, object),
                               !.current = created,
                               !.store[o] = created,
                               !.at[o] = "loaded"]
     /\ loaded' = TRUE
     /\ concepts' = object.concepts
     /\ lastUpdated' = object.lastUpdated
     /\ last' = [NoCall EXCEPT !.op = "load", !.id = o, !.result = "loaded",
                               !.name = calls.name[o], !.at = now]
     /\ UNCHANGED <<disk, now, nextId, tree, tenants, scanner, walk>>

\* getConceptByName looks in this.store: existing is the id of the concept
\* it found, 0 when it found none
FindConcept(o) ==
  LET found == getConceptByName(concepts, calls.name[o])
  IN /\ calls.at[o] = "loaded"
     /\ calls' = [calls EXCEPT
                    !.existing[o] = IF found = 0 THEN 0 ELSE concepts[found].id,
                    !.at[o] = "found"]
     /\ last' = [NoCall EXCEPT !.op = "getConceptByName", !.id = o,
                               !.name = calls.name[o],
                               !.result = IF found = 0 THEN "none" ELSE "found",
                               !.at = now]
     /\ UNCHANGED <<loaded, concepts, lastUpdated, disk, now, nextId, tree,
                    tenants, scanner, walk>>

\* if (existing) the concept of that id is updated in this.store, else a
\* new concept is pushed to the store of the caller
PushConcept(o) ==
  LET name == calls.name[o]
      existing == IndexById(concepts, calls.existing[o])
      mine == calls.store[o]
      merged == UpdatedConcept(concepts[existing], Undefined, Undefined,
                               Undefined, NoLocations, now)
      concept == NewConcept(nextId, name, "library", Undefined, "e",
                            Undefined, now)
  IN /\ calls.at[o] = "found"
     /\ IF calls.existing[o] # 0 /\ existing = 0
          THEN /\ calls' = [calls EXCEPT !.at[o] = "idle", !.existing[o] = 0]
               /\ UNCHANGED <<concepts, nextId>>
          ELSE IF existing # 0
          THEN /\ calls' = [calls EXCEPT
                              !.objects[calls.current].concepts[existing] = merged,
                              !.at[o] = "saving"]
               /\ concepts' = [concepts EXCEPT ![existing] = merged]
               /\ UNCHANGED nextId
          ELSE /\ nextId <= MaxIds
               /\ calls' = [calls EXCEPT
                              !.objects[mine].concepts = Append(@, concept),
                              !.at[o] = "saving"]
               /\ concepts' = IF mine = calls.current
                                THEN Append(concepts, concept)
                                ELSE concepts
               /\ nextId' = nextId + 1
     /\ last' = [NoCall EXCEPT !.op = "addConcept", !.id = o, !.name = name,
                               !.result = IF calls.existing[o] = 0 THEN "created"
                                          ELSE IF existing # 0 THEN "merged"
                                          ELSE "notFoundId",
                               !.error = IF calls.existing[o] # 0 /\ existing = 0
                                           THEN "notFound" ELSE "none",
                               !.at = now]
     /\ tree' = EmptyForest
     /\ UNCHANGED <<loaded, lastUpdated, disk, now, tenants, scanner, walk>>

\* save() up to the call of fs.writeFile: this.store.lastUpdated = now, and
\* data is JSON.stringify(this.store) as it is then
SaveStore(o) ==
  /\ calls.at[o] = "saving"
  /\ calls' = [calls EXCEPT !.objects[calls.current].lastUpdated = now,
                            !.data[o] = Document(concepts, now),
                            !.existing[o] = 0,
                            !.at[o] = "writing"]
  /\ lastUpdated' = now
  /\ last' = [NoCall EXCEPT !.op = "save", !.id = o, !.name = calls.name[o],
                            !.result = "writing", !.at = now]
  /\ UNCHANGED <<loaded, concepts, disk, now, nextId, tree, tenants, scanner, walk>>

\* fs.writeFile of the caller ends and the call returns.  Writes to one
\* file that are in flight together are not ordered: the file holds the
\* data of the write that ends last, or, while another write is in flight,
\* bytes of both (mixed), which is no JSON text
WriteLands(o, mixed) ==
  /\ calls.at[o] = "writing"
  /\ mixed => \E other \in Callers \ {o} : calls.at[other] = "writing"
  /\ calls' = [calls EXCEPT !.at[o] = "idle",
                            !.data[o] = NoDocument,
                            !.returned = @ \cup {calls.name[o]}]
  /\ disk' = IF mixed THEN TornDocument ELSE calls.data[o]
  /\ last' = [NoCall EXCEPT !.op = "save", !.id = o, !.name = calls.name[o],
                            !.result = "returned", !.saved = "ok", !.at = now]
  /\ UNCHANGED <<loaded, concepts, lastUpdated, now, nextId, tree, tenants,
                 scanner, walk>>

(***************************************************************************)
(* wouldCreateCycle(concepts, childId, parentName) taken apart at the      *)
(* turns of its while loop.  BeginWalk runs it up to the loop, WalkStep is *)
(* the test of the loop and one turn of its body.                          *)
(***************************************************************************)
BeginWalk(childId, parentName) ==
  LET c == IndexById(concepts, childId)
  IN /\ walk.at # "looping"
     /\ walk' = IF c = 0
                  THEN [NoWalk EXCEPT !.at = "returned",
                                      !.parentName = parentName]
                  ELSE [NoWalk EXCEPT !.at = "looping",
                                      !.child = concepts[c].name,
                                      !.parentName = parentName,
                                      !.current = parentName]
     /\ last' = [NoCall EXCEPT !.op = "wouldCreateCycle", !.id = childId,
                               !.parent = parentName, !.at = now]
     /\ UNCHANGED <<loaded, concepts, lastUpdated, disk, now, nextId, tree,
                    tenants, scanner, calls>>

\* mutant of WalkTurn: visited is not looked at
WalkTurnNotLooking(cs, w) ==
  IF ~Truthy(w.current) THEN [w EXCEPT !.at = "returned", !.result = FALSE]
  ELSE IF w.current = w.child THEN [w EXCEPT !.at = "returned", !.result = TRUE]
  ELSE LET p == IndexByExactName(cs, w.current)
       IN [w EXCEPT !.visited = @ \cup {w.current},
                    !.current = IF p = 0 THEN Undefined ELSE cs[p].parent]

\* while (current) { ... }: the walk after the test and one turn
WalkTurn(cs, w) ==
  IF ~Truthy(w.current) THEN [w EXCEPT !.at = "returned", !.result = FALSE]
  ELSE IF w.current = w.child THEN [w EXCEPT !.at = "returned", !.result = TRUE]
  ELSE IF w.current \in w.visited
    THEN [w EXCEPT !.at = "returned", !.result = TRUE]
  ELSE LET p == IndexByExactName(cs, w.current)
       IN [w EXCEPT !.visited = @ \cup {w.current},
                    !.current = IF p = 0 THEN Undefined ELSE cs[p].parent]

WalkStep ==
  /\ walk.at = "looping"
  /\ walk' = WalkTurn(concepts, walk)
  /\ UNCHANGED <<loaded, concepts, lastUpdated, disk, now, nextId, tree, last,
                 tenants, scanner, calls>>

(***************************************************************************)
(* Inputs of the calls.  A step is one call of the repository with         *)
(* arguments drawn from the given sets; ticks is the set of amounts by     *)
(* which the clock may advance between two readings.                       *)
(***************************************************************************)
Ids == 1..MaxIds

Step(names, addParents, newNames, newParents, snippets, locations, writes, tick) ==
  \/ \E name \in names, parent \in addParents, chatSnippet \in snippets,
        w \in writes, t1 \in Readings(now, tick) :
       \E t2 \in Readings(t1, tick) :
         AddConcept(name, "library", parent, "e", chatSnippet, t1, t2, w)
  \/ \E id \in Ids, name \in newNames, chatSnippet \in snippets,
        codeLocations \in locations, w \in writes, t1 \in Readings(now, tick) :
       \E t2 \in Readings(t1, tick) :
         UpdateConcept(id, name, Undefined, chatSnippet, codeLocations, t1, t2, w)
  \/ \E id \in Ids, w \in writes, t2 \in Readings(now, tick) :
       DeleteConcept(id, t2, w)
  \/ \E id \in Ids, parent \in newParents, w \in writes,
        t1 \in Readings(now, tick) :
       \E t2 \in Readings(t1, tick) :
         UpdateConceptParent(id, parent, t1, t2, w)
  \/ \E t \in Readings(now, tick) : GetTree(t)

(***************************************************************************)
(* Spec: the hierarchy.  Three names, two of them equal ignoring case.     *)
(* A concept is added under any of them, with no parent, an empty one or   *)
(* a lower-case one, renamed to a lower-case name, and reparented to any   *)
(* name, to null or to the empty string; all calls fall within one reading *)
(* of the clock and every write succeeds.                                  *)
(***************************************************************************)
Names == {"a", "A", "b"}

Next ==
  Step(Names, {Undefined, "", "a", "b"}, {Undefined, "a", "b"},
       Names \cup {Null, ""}, {Undefined}, {NoLocations}, {"ok"}, 0)

Spec == Init /\ [][Next]_vars

(***************************************************************************)
(* SpecTime: provenance and timestamps of one concept.  The clock advances *)
(* between the readings, chat snippets and code locations are passed; the  *)
(* two names are equal ignoring case, so that every add after the first    *)
(* one merges.                                                             *)
(***************************************************************************)
NextTime ==
  Step({"a", "A"}, {Undefined}, {Undefined}, {Null, "a"},
       {Undefined, "", "s"}, {NoLocations, Locations(<<"f:1">>)}, {"ok"}, 1)

SpecTime == Init /\ [][NextTime]_vars

(***************************************************************************)
(* SpecReject: reparenting while the clock advances.  Two names, so that   *)
(* one concept can be the parent of the other.                             *)
(***************************************************************************)
NextReject ==
  Step({"a", "b"}, {Undefined, "a"}, {Undefined}, {Null, "", "a", "b"},
       {Undefined}, {NoLocations}, {"ok"}, 1)

SpecReject == Init /\ [][NextReject]_vars

(***************************************************************************)
(* Location updates: two concepts and every list of code locations of at   *)
(* most MaxList entries over two places, repeated entries included; the    *)
(* clock stands still.                                                     *)
(***************************************************************************)
Places == {"src/f.ts:1", "src/g.ts:2"}

LocationLists ==
  {Locations(list) : list \in UNION {[1..n -> Places] : n \in 0..MaxList}}

NextLocations ==
  \/ \E name \in {"a", "b"} :
       AddConcept(name, "library", Undefined, "e", Undefined, now, now, "ok")
  \/ \E id \in Ids, codeLocations \in LocationLists \cup {NoLocations} :
       UpdateConcept(id, Undefined, Undefined, Undefined, codeLocations,
                     now, now, "ok")

SpecLocations == Init /\ [][NextLocations]_vars

(***************************************************************************)
(* Writing: two concepts, every call of the store, and a write that can    *)
(* succeed or be rejected; the clock stands still.                         *)
(***************************************************************************)
Writes == {"ok", "fail"}

NextWrite ==
  Step({"a", "b"}, {Undefined, "a"}, {Undefined}, {Null, "a"},
       {Undefined}, {NoLocations}, Writes, 0)

SpecWrite == Init /\ [][NextWrite]_vars

(***************************************************************************)
(* Scanning: concepts are added and scanned, the scanner finds one place   *)
(* or none for each, and each write of the scan can succeed, be rejected   *)
(* or be rejected after the file was truncated.                            *)
(***************************************************************************)
NextScan ==
  \/ \E name \in {"a", "b"} :
       AddConcept(name, "library", Undefined, "e", Undefined, now, now, "ok")
  \/ \E conceptId \in {0} \cup Ids,
        found \in [1..Len(concepts) -> {<<>>, <<"src/f.ts:1">>}],
        ws \in [1..Len(concepts) -> {"ok", "fail", "torn"}],
        t \in Readings(now, 1) :
       ScanCodebase(conceptId, found, ws, t)

SpecScan == Init /\ [][NextScan]_vars

(***************************************************************************)
(* Extraction: batches of at most MaxBatch extracted concepts, an          *)
(* extractor that can throw, and deletions; the context is saved only by   *)
(* the calls whose extractor throws; the clock ticks.                      *)
(***************************************************************************)
Extracted(name, parent) ==
  [name |-> name, category |-> "library", parent |-> parent,
   explanation |-> "e"]

Batches ==
  UNION {[1..n -> {Extracted("a", Undefined), Extracted("b", "a")}] :
           n \in 0..MaxBatch}

NextExtract ==
  \/ \E extracted \in Batches, t \in Readings(now, 1) :
       ExtractConcepts("ok", extracted, Undefined, t, "ok")
  \/ \E extracted \in {batch \in Batches : Len(batch) <= 1},
        t \in Readings(now, 1) :
       ExtractConcepts("throws", extracted, "s", t, "ok")
  \/ \E id \in Ids : DeleteConcept(id, now, "ok")

SpecExtract == Init /\ [][NextExtract]_vars

(***************************************************************************)
(* Tenants: connections with two valid tokens and two that the server      *)
(* refuses; the calls of a connection add and delete concepts, writes can  *)
(* be rejected.  As in SpecLoad the first call of a storage is             *)
(* getAllConcepts.  The clock stands still.                                *)
(***************************************************************************)
TokenOne == <<"u", "s", "e", "r", "-", "0", "0", "1">>

TokenTwo == <<"U", "S", "E", "R", "-", "0", "0", "1">>

Tokens == {TokenOne, TokenTwo, <<"u", "1">>, <<".", ".", "/">> \o TokenOne}

NextTenants ==
  \/ \E token \in Tokens : Connect(token)
  \/ /\ tenants.active # NoToken
     /\ GetAllConcepts(now)
  \/ \E name \in {"a", "b"}, w \in Writes :
       /\ tenants.active # NoToken
       /\ loaded
       /\ AddConcept(name, "library", Undefined, "e", Undefined, now, now, w)
  \/ \E id \in Ids, w \in Writes :
       /\ tenants.active # NoToken
       /\ loaded
       /\ DeleteConcept(id, now, w)

SpecTenants == Init /\ [][NextTenants]_vars

(***************************************************************************)
(* Export: concepts with no parent, an empty parent and a parent; exports  *)
(* of all concepts and of every list of at most MaxList - 1 ids out of two *)
(* that can be in the store and one that cannot, with the flags omitted,   *)
(* set and cleared; the clock stands still.                                *)
(***************************************************************************)
IdLists ==
  {NoIds} \cup {ConceptIds(list) :
                  list \in UNION {[1..n -> {1, 2, MaxIds + 1}] :
                                    n \in 0..(MaxList - 1)}}

Flags == {<<Undefined, Undefined>>, <<True, False>>, <<False, True>>}

NextExport ==
  \/ \E name \in {"a", "b"}, parent \in {Undefined, "", "a"} :
       AddConcept(name, "library", parent, "e", Undefined, now, now, "ok")
  \/ \E id \in Ids : DeleteConcept(id, now, "ok")
  \/ \E conceptIds \in IdLists, include \in Flags :
       ExportConcepts(conceptIds, include[1], include[2], now)

SpecExport == Init /\ [][NextExport]_vars

(***************************************************************************)
(* Entry points: the add_concept tool, POST /api/concepts, an extraction   *)
(* of one concept and a rename, each with a name that may be empty; the    *)
(* clock stands still.                                                     *)
(***************************************************************************)
EntryNames == {"", "a"}

NextEntry ==
  \/ \E name \in EntryNames, parent \in {Undefined, "a"} :
       HandleAddConcept(name, "library", "e", parent, now, "ok")
  \/ \E name \in EntryNames \cup {Undefined}, explanation \in {"", "e"},
        parent \in {Undefined, "a"} :
       PostConcept(name, "library", explanation, parent, now, "ok")
  \/ \E name \in EntryNames :
       ExtractConcepts("ok", <<Extracted(name, Undefined)>>, Undefined, now, "ok")
  \/ \E id \in Ids, name \in EntryNames \cup {"b"} :
       UpdateConcept(id, name, Undefined, Undefined, NoLocations, now, now, "ok")
  \/ \E id \in Ids : DeleteConcept(id, now, "ok")

SpecEntry == Init /\ [][NextEntry]_vars

(***************************************************************************)
(* Loading: the process starts with any of five documents (none, one that  *)
(* cannot be read, one that is no JSON, one that fails the schema, one     *)
(* that passes), writes can fail and tear the document, and the process    *)
(* can be restarted.  Every call starts with load(); here the first call   *)
(* of a process is getAllConcepts, so that the load is a step of its own.  *)
(***************************************************************************)
SeedId == MaxIds + 1

Seed(category) ==
  NewConcept(SeedId, "seed", category, Undefined, "e", Undefined, 0)

InitialDocuments ==
  {NoDocument,
   [TornDocument EXCEPT !.kind = "unreadable"],
   TornDocument,
   Document(<<Seed("bogus")>>, 0),
   Document(<<Seed("library")>>, 0)}

InitLoad ==
  /\ loaded = FALSE
  /\ concepts = <<>>
  /\ lastUpdated = 0
  /\ disk \in InitialDocuments
  /\ now = 0
  /\ nextId = 1
  /\ tree = EmptyForest
  /\ last = NoCall
  /\ tenants = NoTenants
  /\ scanner = NoScan
  /\ calls = NoCalls
  /\ walk = NoWalk

NextLoad ==
  \/ \E t \in Readings(now, 1) : GetAllConcepts(t)
  \/ Restart
  \/ \E w \in {"ok", "fail", "torn"}, chatSnippet \in {Undefined, "s"} :
       /\ loaded
       /\ AddConcept("a", "library", Undefined, "e", chatSnippet, now, now, w)
  \/ \E id \in Ids \cup {SeedId}, w \in {"ok", "fail", "torn"} :
       /\ loaded
       /\ DeleteConcept(id, now, w)

SpecLoad == InitLoad /\ [][NextLoad]_vars

(***************************************************************************)
(* Field updates: two concepts, the second of them with a parent and a     *)
(* snippet, each added once; an update gives no field or one field, empty  *)
(* or not; the clock ticks between updates.                                *)
(***************************************************************************)
NoUpdates == [name |-> Undefined, explanation |-> Undefined,
              chatSnippet |-> Undefined, codeLocations |-> NoLocations]

UpdateInputs ==
  {NoUpdates,
   [NoUpdates EXCEPT !.name = ""],
   [NoUpdates EXCEPT !.name = "c"],
   [NoUpdates EXCEPT !.explanation = "x"],
   [NoUpdates EXCEPT !.codeLocations = Locations(<<"src/f.ts:1">>)]}

NextUpdate ==
  \/ \E name \in {"a", "b"}, t \in Readings(now, 0) :
       /\ Len(concepts) < 2
       /\ getConceptByName(concepts, name) = 0
       /\ AddConcept(name, "library", IF name = "a" THEN Undefined ELSE "a",
                     "e", IF name = "a" THEN Undefined ELSE "s", t, t, "ok")
  \/ \E id \in Ids, updates \in UpdateInputs, t \in Readings(now, 1) :
       UpdateConcept(id, updates.name, updates.explanation,
                     updates.chatSnippet, updates.codeLocations, t, t, "ok")

SpecUpdate == Init /\ [][NextUpdate]_vars

(***************************************************************************)
(* Identity: two concepts that are added, merged, updated, reparented,     *)
(* deleted and scanned while the clock ticks; every write succeeds.        *)
(***************************************************************************)
NextIdentity ==
  \/ \E name \in {"a", "b"}, t \in Readings(now, 1) :
       AddConcept(name, "library", Undefined, "e", Undefined, t, t, "ok")
  \/ \E id \in Ids, t \in Readings(now, 1) :
       UpdateConcept(id, Undefined, "x", Undefined, NoLocations, t, t, "ok")
  \/ \E id \in Ids : DeleteConcept(id, now, "ok")
  \/ \E id \in Ids, t \in Readings(now, 1) :
       UpdateConceptParent(id, "a", t, t, "ok")
  \/ \E found \in [1..Len(concepts) -> {<<>>, <<"src/f.ts:1">>}],
        t \in Readings(now, 1) :
       ScanCodebase(0, found, [i \in 1..Len(concepts) |-> "ok"], t)
  \/ \E conceptId \in Ids, t \in Readings(now, 1) :
       ScanCodebase(conceptId, [i \in 1..Len(concepts) |-> <<"src/f.ts:1">>],
                    [i \in 1..Len(concepts) |-> "ok"], t)

SpecIdentity == Init /\ [][NextIdentity]_vars

(***************************************************************************)
(* Scanning a project: a directory with source files, hidden entries, an   *)
(* excluded directory, a directory and a file that cannot be read, a file  *)
(* of another extension and a symbolic link; rootPath itself can be read   *)
(* or not.  The concepts "a", "ab" and "b" are added and deleted and the   *)
(* scanner is called with its options omitted, empty and set.  In src/a.ts *)
(* only line 5 mentions "a"; the clock stands still.                       *)
(***************************************************************************)
Src == <<"s", "r", "c">>

ATs == <<"a", ".", "t", "s">>

\* the project: a hidden file, .git, dist, a directory that cannot be read,
\* a symbolic link, a markdown file, a file that cannot be read, and src;
\* CallsA is a line that mentions a and nothing else, CallsAb a line that
\* mentions ab, and a only as a part of it
Project(rootReadable) ==
  LET Git == <<".", "g", "i", "t">>
      Dist == <<"d", "i", "s", "t">>
      Locked == <<"l", "o", "c", "k">>
      BTs == <<"b", ".", "t", "s">>
      CJs == <<"c", ".", "j", "s">>
      HiddenJs == <<".", "e", ".", "j", "s">>
      NotesMd == <<"n", ".", "m", "d">>
      LinkTs == <<"l", ".", "t", "s">>
      SecretTs == <<"s", ".", "t", "s">>
      CallsA == <<"f", "(", "A", ")">>
      CallsAb == <<"a", "b", "(", ")">>
  IN <<Entry(<<>>, "dir", rootReadable, <<>>),
       Entry(<<HiddenJs>>, "file", TRUE, <<CallsA>>),
       Entry(<<Git>>, "dir", TRUE, <<>>),
       Entry(<<Git, CJs>>, "file", TRUE, <<CallsA>>),
       Entry(<<Dist>>, "dir", TRUE, <<>>),
       Entry(<<Dist, ATs>>, "file", TRUE, <<CallsA>>),
       Entry(<<Locked>>, "dir", FALSE, <<>>),
       Entry(<<Locked, ATs>>, "file", TRUE, <<CallsA>>),
       Entry(<<LinkTs>>, "other", TRUE, <<CallsA>>),
       Entry(<<NotesMd>>, "file", TRUE, <<CallsA, CallsAb>>),
       Entry(<<SecretTs>>, "file", FALSE, <<CallsA>>),
       Entry(<<Src>>, "dir", TRUE, <<>>),
       Entry(<<Src, ATs>>, "file", TRUE,
             <<CallsAb, <<>>, <<"x">>, CallsAb, CallsA, <<"a", "_">>>>),
       Entry(<<Src, BTs>>, "file", TRUE, <<<<"x">>, CallsAb>>)>>

Includes == {NoList, List(<<>>), List(<<<<"t", "s">>>>),
             List(<<<<"j", "s">>, <<"m", "d">>>>)}

Excludes == {NoList, List(<<>>), List(<<Src>>)}

InitProject ==
  /\ loaded = FALSE
  /\ concepts = <<>>
  /\ lastUpdated = 0
  /\ disk = NoDocument
  /\ now = 0
  /\ nextId = 1
  /\ tree = EmptyForest
  /\ last = NoCall
  /\ tenants = NoTenants
  /\ scanner \in {[NoScan EXCEPT !.project = Project(rootReadable)] :
                    rootReadable \in BOOLEAN}
  /\ calls = NoCalls
  /\ walk = NoWalk

NextProject ==
  \/ \E name \in {"a", "ab", "b"} :
       AddConcept(name, "library", Undefined, "e", Undefined, now, now, "ok")
  \/ \E id \in Ids : DeleteConcept(id, now, "ok")
  \/ \E include \in Includes, exclude \in Excludes :
       ScanAllConcepts(include, exclude)

SpecProject == InitProject /\ [][NextProject]_vars

(***************************************************************************)
(* Chains: the process finds a document with the concept "seed", whose     *)
(* parent "b" does not exist yet, adds "a" and "b" and reparents the three *)
(* concepts under each other, so that parent chains of two links arise.    *)
(* The clock ticks between the reparentings.  As in SpecLoad the first     *)
(* call of the process is getAllConcepts.                                  *)
(***************************************************************************)
SeedUnder(parent) ==
  NewConcept(SeedId, "seed", "library", parent, "e", Undefined, 0)

InitChain ==
  /\ loaded = FALSE
  /\ concepts = <<>>
  /\ lastUpdated = 0
  /\ disk = Document(<<SeedUnder("b")>>, 0)
  /\ now = 0
  /\ nextId = 1
  /\ tree = EmptyForest
  /\ last = NoCall
  /\ tenants = NoTenants
  /\ scanner = NoScan
  /\ calls = NoCalls
  /\ walk = NoWalk

NextChain ==
  \/ /\ ~loaded
     /\ GetAllConcepts(now)
  \/ \E name \in {"a", "b"} :
       /\ loaded
       /\ AddConcept(name, "library", Undefined, "e", Undefined, now, now, "ok")
  \/ \E id \in Ids \cup {SeedId}, parent \in {Null, "a", "b", "seed"},
        t \in Readings(now, 1) :
       /\ loaded
       /\ UpdateConceptParent(id, parent, t, t, "ok")

SpecChain == InitChain /\ [][NextChain]_vars

(***************************************************************************)
(* Overlap: two callers add the concepts "a" and "b" to one StorageService *)
(* and their calls interleave at the awaits; the clock stands still.       *)
(***************************************************************************)
NextOverlap ==
  \E o \in Callers :
    \/ \E name \in {"a", "b"} : BeginAdd(o, name)
    \/ FinishLoad(o)
    \/ FindConcept(o)
    \/ PushConcept(o)
    \/ SaveStore(o)
    \/ \E mixed \in BOOLEAN : WriteLands(o, mixed)

SpecOverlap == Init /\ [][NextOverlap]_vars

(***************************************************************************)
(* Merging: concepts are added and added again under a name of the same or *)
(* of another case, with another category, explanation and parent than the *)
(* first time; a concept gets a code location in between.  The clock       *)
(* advances between the calls.                                             *)
(***************************************************************************)
Extracts ==
  {[name |-> "a", category |-> "library", parent |-> Undefined,
    explanation |-> "e"],
   [name |-> "A", category |-> "pattern", parent |-> "b", explanation |-> "x"],
   [name |-> "b", category |-> "library", parent |-> Undefined,
    explanation |-> "e"]}

NextMerge ==
  \/ \E extracted \in Extracts, chatSnippet \in {Undefined, "s"},
        t \in Readings(now, 1) :
       /\ extracted.name = "b" => chatSnippet = Undefined /\ Len(concepts) = 0
       /\ AddConcept(extracted.name, extracted.category, extracted.parent,
                     extracted.explanation, chatSnippet, t, t, "ok")
  \/ \E id \in Ids :
       UpdateConcept(id, Undefined, Undefined, Undefined,
                     Locations(<<"src/f.ts:1">>), now, now, "ok")

SpecMerge == Init /\ [][NextMerge]_vars

(***************************************************************************)
(* Forests: the document holds any list of at most MaxForest concepts over *)
(* three names, each with no parent or one of two of the names as parent,  *)
(* which need not be the name of a concept of the list; names may repeat   *)
(* and parents may form a cycle.                                           *)
(* The store is loaded, the tree endpoint is called and the concepts are   *)
(* exported as markdown; the clock stands still.                           *)
(***************************************************************************)
MaxForest == 3

ForestConcept(id, name, parent) ==
  [id |-> id, name |-> name, category |-> "library", parent |-> parent,
   explanation |-> "e", chatSnippets |-> <<>>, codeLocations |-> <<>>,
   firstSeen |-> 0, lastSeen |-> 0]

Snapshots ==
  UNION {{[i \in 1..n |-> ForestConcept(i, names[i], parents[i])] :
            names \in [1..n -> {"a", "b", "c"}],
            parents \in [1..n -> {Undefined, "a", "b"}]} :
         n \in 0..MaxForest}

InitForest ==
  /\ loaded = FALSE
  /\ concepts = <<>>
  /\ lastUpdated = 0
  /\ disk \in {Document(cs, 0) : cs \in Snapshots}
  /\ now = 0
  /\ nextId = MaxForest + 1
  /\ tree = EmptyForest
  /\ last = NoCall
  /\ tenants = NoTenants
  /\ scanner = NoScan
  /\ calls = NoCalls
  /\ walk = NoWalk

NextForest ==
  \/ ~loaded /\ GetAllConcepts(now)
  \/ loaded /\ GetTree(now)
  \/ ExportMarkdown(NoIds, Undefined, Undefined, now)

SpecForest == InitForest /\ [][NextForest]_vars

(***************************************************************************)
(* The cycle check on any store: the document holds three concepts, the    *)
(* third with the name of the first or a name of its own, each with no     *)
(* parent, the name of a concept or a name that no concept has, so that    *)
(* the parents may form a cycle or lead nowhere.  The store is loaded and  *)
(* wouldCreateCycle runs for any concept and any name; a loop that has     *)
(* begun takes its next turn.                                              *)
(***************************************************************************)
WalkStores ==
  {[i \in 1..3 |-> ForestConcept(i, names[i], parents[i])] :
     names \in {<<"a", "b", "c">>, <<"a", "b", "a">>},
     parents \in [1..3 -> {Undefined, "a", "b", "c", "z"}]}

InitWalk ==
  /\ loaded = FALSE
  /\ concepts = <<>>
  /\ lastUpdated = 0
  /\ disk \in {Document(cs, 0) : cs \in WalkStores}
  /\ now = 0
  /\ nextId = 4
  /\ tree = EmptyForest
  /\ last = NoCall
  /\ tenants = NoTenants
  /\ scanner = NoScan
  /\ calls = NoCalls
  /\ walk = NoWalk

NextWalk ==
  \/ ~loaded /\ GetAllConcepts(now)
  \/ \E childId \in 1..3, parentName \in {"a", "b", "c", "z"} :
       loaded /\ BeginWalk(childId, parentName)
  \/ WalkStep

SpecWalk == InitWalk /\ [][NextWalk]_vars /\ WF_vars(WalkStep)

(***************************************************************************)
(* Narrative export: the document holds the concept "a" with any number of *)
(* chat snippets up to MaxRefs and of code locations up to MaxPlaces, and  *)
(* may hold the concept "b", a root or a child of "a".  The first snippet  *)
(* of a concept is longer than the limit of a line, the second has a line  *)
(* break.  The store is loaded and exported as markdown, all of it or the  *)
(* concept "b" alone, with and without snippets and locations.             *)
(***************************************************************************)
MaxRefs == 5
MaxPlaces == 4

Story(id, name, parent, refs, places) ==
  LET ContentOf(k) ==
        CASE k = 1 -> [i \in 1..101 |-> "x"]
          [] k = 2 -> <<"s", "\n", "t">>
          [] OTHER -> <<"s">>
  IN [id |-> id, name |-> name, category |-> "library", parent |-> parent,
      explanation |-> "e",
      chatSnippets |-> [k \in 1..refs |->
                          [timestamp |-> k, content |-> ContentOf(k)]],
      codeLocations |-> [k \in 1..places |-> <<"src/f.ts", k>>],
      firstSeen |-> 0, lastSeen |-> refs]

Stories ==
  {<<Story(1, "a", Undefined, refs, places)>> \o rest :
     refs \in 0..MaxRefs, places \in 0..MaxPlaces,
     rest \in {<<>>, <<Story(2, "b", Undefined, 1, 1)>>,
               <<Story(2, "b", "a", 1, 1)>>}}

InitNarrative ==
  /\ loaded = FALSE
  /\ concepts = <<>>
  /\ lastUpdated = 0
  /\ disk \in {Document(cs, 0) : cs \in Stories}
  /\ now = 0
  /\ nextId = 3
  /\ tree = EmptyForest
  /\ last = NoCall
  /\ tenants = NoTenants
  /\ scanner = NoScan
  /\ calls = NoCalls
  /\ walk = NoWalk

NextNarrative ==
  \/ ~loaded /\ GetAllConcepts(now)
  \/ \E conceptIds \in {NoIds, ConceptIds(<<2>>)}, include \in Flags :
       ExportMarkdown(conceptIds, include[1], include[2], now)

SpecNarrative == InitNarrative /\ [][NextNarrative]_vars

(***************************************************************************)
(* Properties.                                                             *)
(***************************************************************************)
Indices == 1..Len(concepts)

\* the concept the last call named by id, in the store cs (0: none)
Target(cs) == IndexById(cs, last.id)

\* edges child.name -> child.parent of the parent graph
ParentEdges(cs) ==
  {<<cs[i].name, cs[i].parent>> : i \in {j \in 1..Len(cs) : Truthy(cs[j].parent)}}

\* the names that can be reached from the names in from along edges
RECURSIVE ReachableNames(_, _)
ReachableNames(edges, from) ==
  LET more == from \cup {e[2] : e \in {d \in edges : d[1] \in from}}
  IN IF more = from THEN from ELSE ReachableNames(edges, more)

Acyclic(cs) ==
  \A e \in ParentEdges(cs) : e[1] \notin ReachableNames(ParentEdges(cs), {e[2]})

\* C1: the parent graph (an edge from each concept's name to its parent
\* value) is acyclic in every reachable state, and no concept is its own
\* parent.
C1_ParentGraphAcyclic ==
  /\ Acyclic(concepts)
  /\ \A i \in Indices : concepts[i].parent # concepts[i].name

\* C2: no two distinct concepts have names that are equal ignoring case.
C2_NamesUnique ==
  \A i, j \in Indices :
    i # j => toLowerCase(concepts[i].name) # toLowerCase(concepts[j].name)

\* the names on the chain of parent references that starts at the name
\* current, each name resolved to the first concept of that name; at most
\* n names
RECURSIVE ChainNames(_, _, _)
ChainNames(cs, current, n) ==
  IF n = 0 \/ ~Truthy(current) THEN {}
  ELSE LET holders == {i \in 1..Len(cs) : cs[i].name = current}
           first == IF holders = {} THEN 0
                    ELSE CHOOSE i \in holders : \A j \in holders : i <= j
       IN {current} \cup
          ChainNames(cs, IF first = 0 THEN Undefined ELSE cs[first].parent, n - 1)

\* C3: a call updateConceptParent(id, p) on an existing concept is rejected
\* with the circular-reference error whenever p is the concept's own name or
\* the chain of parent references from p in the graph before the call
\* reaches the concept's name.
C3_CycleRejected ==
  [][(/\ last'.op = "updateConceptParent"
      /\ IndexById(concepts, last'.id) # 0
      /\ concepts[IndexById(concepts, last'.id)].name
           \in ChainNames(concepts, last'.parent, Len(concepts) + 1))
     => last'.result = "cycle"]_vars

\* 'React Hooks' is the parent of 'useState' and reparenting 'React Hooks'
\* under 'useState' has just been rejected
C3_Witness ==
  /\ last.op = "updateConceptParent"
  /\ last.result = "cycle"
  /\ Target(concepts) # 0
  /\ concepts[Target(concepts)].name # last.parent
  /\ \E i \in Indices :
       /\ concepts[i].name = last.parent
       /\ concepts[i].parent = concepts[Target(concepts)].name

Rejections == {"notFoundId", "notFoundParent", "cycle"}

\* C4: a rejected updateConceptParent call (unknown id, unknown parent name,
\* cycle) changes no concept, performs no save and does not bump lastUpdated.
C4_RejectionChangesNothing ==
  [][(last'.op = "updateConceptParent" /\ last'.result \in Rejections)
     => /\ concepts' = concepts
        /\ disk' = disk
        /\ loaded => lastUpdated' = lastUpdated]_vars

\* a cycle was rejected at a time when a bump of the target's lastSeen or
\* of lastUpdated would show
C4_Witness ==
  /\ last.op = "updateConceptParent"
  /\ last.result = "cycle"
  /\ Target(concepts) # 0
  /\ concepts[Target(concepts)].lastSeen < now
  /\ concepts[Target(concepts)].name # last.parent
  /\ lastUpdated < now
  /\ disk.lastUpdated < now

Namesakes(cs, name) ==
  {i \in 1..Len(cs) : toLowerCase(cs[i].name) = toLowerCase(name)}

FirstNamesake(cs, name) ==
  CHOOSE i \in Namesakes(cs, name) : \A j \in Namesakes(cs, name) : i <= j

\* C6: addConcept with a name that equals, ignoring case, the name of an
\* existing concept merges: the number of concepts (of that name and in all)
\* is unchanged, the concept's chatSnippets grow by one when a chat snippet
\* text is passed and by none otherwise, and its lastSeen is the time of the
\* call.
C6_MergeOnAdd ==
  [][(last'.op = "addConcept" /\ Namesakes(concepts, last'.name) # {})
     => LET i == FirstNamesake(concepts, last'.name)
        IN /\ last'.result = "merged"
           /\ Len(concepts') = Len(concepts)
           /\ Namesakes(concepts', last'.name) = Namesakes(concepts, last'.name)
           /\ concepts'[i].id = concepts[i].id
           /\ Len(concepts'[i].chatSnippets) =
                Len(concepts[i].chatSnippets)
                  + (IF Truthy(last'.snippet) THEN 1 ELSE 0)
           /\ concepts'[i].lastSeen = last'.at
           /\ concepts'[i].lastSeen >= concepts[i].lastSeen]_vars

\* a concept was re-added under a name of different case, with a snippet,
\* later than it was created
C6_Witness ==
  /\ last.op = "addConcept"
  /\ last.result = "merged"
  /\ Truthy(last.snippet)
  /\ Target(concepts) # 0
  /\ concepts[Target(concepts)].name # last.name
  /\ concepts[Target(concepts)].lastSeen > concepts[Target(concepts)].firstSeen
  /\ Len(concepts[Target(concepts)].chatSnippets) = 1

\* C7 as stated: every operation that assigns a non-null parent (addConcept
\* at creation, updateConceptParent) assigns the name of a concept of the
\* store.
C7_AssignedParentExistsAlways ==
  (/\ last.result \in {"created", "reparented"}
   /\ concepts[Target(concepts)].parent # Undefined)
  => \E i \in Indices : concepts[i].name = concepts[Target(concepts)].parent

\* C7: whenever updateConceptParent assigns a non-null parent to a concept,
\* another concept with exactly that name is in the store at that moment.
C7_ReparentAssignsExisting ==
  [][(/\ last'.op = "updateConceptParent"
      /\ last'.result = "reparented"
      /\ concepts'[IndexById(concepts', last'.id)].parent # Undefined)
     => \E i \in Indices :
          /\ concepts[i].id # last'.id
          /\ concepts[i].name = concepts'[IndexById(concepts', last'.id)].parent
          /\ concepts'[i] = concepts[i]]_vars

\* a concept was moved under another one
C7_Witness ==
  /\ last.op = "updateConceptParent"
  /\ last.result = "reparented"
  /\ Target(concepts) # 0
  /\ concepts[Target(concepts)].parent = last.parent
  /\ Truthy(last.parent)

\* C8: a concept is created with firstSeen = lastSeen, and no call lowers the
\* lastSeen of a concept that stays in the store.
C8_LastSeenMonotonic ==
  [][/\ last'.result = "created" =>
          /\ Len(concepts') = Len(concepts) + 1
          /\ concepts'[Len(concepts')].firstSeen = concepts'[Len(concepts')].lastSeen
     /\ \A i \in 1..Len(concepts), j \in 1..Len(concepts') :
          concepts'[j].id = concepts[i].id =>
            /\ concepts'[j].lastSeen >= concepts[i].lastSeen
            /\ concepts'[j].firstSeen = concepts[i].firstSeen]_vars

\* a concept that was mutated after its creation has just been reparented
C8_Witness ==
  /\ last.op = "updateConceptParent"
  /\ last.result = "reparented"
  /\ Target(concepts) # 0
  /\ concepts[Target(concepts)].firstSeen < concepts[Target(concepts)].lastSeen
  /\ concepts[Target(concepts)].chatSnippets # <<>>

\* the keys of the nodes that can be reached from the roots of forest f
RECURSIVE ReachableNodes(_, _)
ReachableNodes(f, from) ==
  LET more == from \cup UNION {{f.children[n][k] : k \in 1..Len(f.children[n])} : n \in from}
  IN IF more = from THEN from ELSE ReachableNodes(f, more)

InForest(f) == ReachableNodes(f, {f.roots[k] : k \in 1..Len(f.roots)})

\* how often the node of key n is referenced from the roots and from the
\* children of the nodes that can be reached
Occurrences(f, n) ==
  Cardinality({k \in 1..Len(f.roots) : f.roots[k] = n})
  + Cardinality({<<m, k>> \in InForest(f) \X (1..Len(concepts)) :
                   k <= Len(f.children[m]) /\ f.children[m][k] = n})

\* C9: the forest built from the concepts of a reachable store holds every
\* concept in exactly one node that can be reached from the roots, and no
\* node twice.
C9_ForestTotal ==
  tree.built =>
    \A i \in Indices :
      /\ tree.concept[concepts[i].name] = i
      /\ concepts[i].name \in InForest(tree)
      /\ Occurrences(tree, concepts[i].name) = 1

\* C10: a concept is a root of the forest exactly if its parent is absent
\* or empty or names no other concept of the snapshot.
C10_RootIffUnresolved ==
  tree.built =>
    \A i \in Indices :
      (/\ tree.concept[concepts[i].name] = i
       /\ \E k \in 1..Len(tree.roots) : tree.roots[k] = concepts[i].name)
      <=> (\/ ~Truthy(concepts[i].parent)
           \/ ~\E j \in Indices : j # i /\ concepts[j].name = concepts[i].parent)

(***************************************************************************)
(* C11: an update that supplies code locations L leaves the concept with   *)
(* the union of its previous locations and L: every previous location and  *)
(* every entry of L is there, nothing else is, no location is there twice, *)
(* and the same update applied once more leaves the list as it is.         *)
(***************************************************************************)
Range(seq) == {seq[k] : k \in 1..Len(seq)}

NoRepeats(seq) == \A j, k \in 1..Len(seq) : seq[j] = seq[k] => j = k

LocationUpdates ==
  /\ last'.op = "updateConcept"
  /\ last'.result = "updated"
  /\ last'.locations.given

C11_LocationsUnion ==
  [][LocationUpdates =>
       LET before == concepts[IndexById(concepts, last'.id)].codeLocations
           after == concepts'[IndexById(concepts', last'.id)]
           again == UpdatedConcept(after, last'.name, last'.explanation,
                                   last'.snippet, last'.locations, now')
       IN /\ Range(after.codeLocations) =
               Range(before) \cup Range(last'.locations.value)
          /\ NoRepeats(after.codeLocations)
          /\ again.codeLocations = after.codeLocations]_vars

\* an update whose list repeats an entry, holds a location the concept
\* already had and one it had not
C11_Witness ==
  /\ last.op = "updateConcept"
  /\ last.result = "updated"
  /\ last.locations.given
  /\ ~NoRepeats(last.locations.value)
  /\ Range(last.locations.value) = Places
  /\ Len(concepts[Target(concepts)].codeLocations) = 2
  /\ \E c2 \in Indices : c2 # Target(concepts)
                          /\ Len(concepts[c2].codeLocations) = 1

(***************************************************************************)
(* C12: updateConcept changes only the fields it was given, and lastSeen:  *)
(* an omitted field, the id, the category, the parent, firstSeen and every *)
(* other concept are as before; with an unknown id it fails with a         *)
(* not-found error and changes nothing.                                    *)
(***************************************************************************)
C12_UpdateFrame ==
  [][last'.op = "updateConcept" =>
       LET index == IndexById(concepts, last'.id)
           old == concepts[index]
           new == concepts'[index]
       IN IF index = 0
            THEN /\ last'.error = "notFound"
                 /\ concepts' = concepts
                 /\ disk' = disk
                 /\ loaded => lastUpdated' = lastUpdated
            ELSE /\ last'.error = "none"
                 /\ Len(concepts') = Len(concepts)
                 /\ \A j \in 1..Len(concepts) :
                      j # index => concepts'[j] = concepts[j]
                 /\ new.id = old.id
                 /\ new.category = old.category
                 /\ new.parent = old.parent
                 /\ new.firstSeen = old.firstSeen
                 /\ new.name \in {old.name, last'.name}
                 /\ last'.name = Undefined => new.name = old.name
                 /\ new.explanation \in {old.explanation, last'.explanation}
                 /\ last'.explanation = Undefined
                      => new.explanation = old.explanation
                 /\ last'.snippet = Undefined
                      => new.chatSnippets = old.chatSnippets
                 /\ ~last'.locations.given
                      => new.codeLocations = old.codeLocations]_vars

\* an update that gave only an explanation, of a concept that has a parent,
\* a snippet and a code location, made later than the concept and than the
\* last change of the other concept
C12_Witness ==
  /\ last.op = "updateConcept"
  /\ last.result = "updated"
  /\ last.name = Undefined
  /\ last.explanation = "x"
  /\ last.snippet = Undefined
  /\ ~last.locations.given
  /\ Len(concepts) = 2
  /\ LET c == concepts[Target(concepts)]
     IN /\ c.explanation = "x"
        /\ c.parent = "a"
        /\ c.chatSnippets # <<>>
        /\ c.codeLocations # <<>>
        /\ c.firstSeen < c.lastSeen
        /\ \E j \in Indices : concepts[j].lastSeen < c.lastSeen

\* an update with an unknown id was rejected, later than the last save
C12_WitnessNotFound ==
  /\ last.op = "updateConcept"
  /\ last.result = "notFoundId"
  /\ concepts # <<>>
  /\ lastUpdated < now

(***************************************************************************)
(* C13: deleteConcept removes exactly the concept of the id and returns    *)
(* true, or returns false, changes nothing and saves nothing when there is *)
(* no such concept; every other concept keeps all its fields, and those    *)
(* whose parent names the deleted concept are roots of the forest built    *)
(* afterwards.                                                             *)
(***************************************************************************)
\* the node of concept j of cs is among the roots of forest f
AppearsAsRoot(f, cs, j) ==
  /\ f.concept[cs[j].name] = j
  /\ cs[j].name \in Range(f.roots)

C13_DeleteRemovesOne ==
  [][last'.op = "deleteConcept" =>
       LET index == IndexById(concepts, last'.id)
       IN IF index = 0
            THEN /\ last'.result = "false"
                 /\ concepts' = concepts
                 /\ disk' = disk
                 /\ loaded => lastUpdated' = lastUpdated
            ELSE /\ last'.result = "deleted"
                 /\ Len(concepts') = Len(concepts) - 1
                 /\ \A j \in 1..Len(concepts') :
                      concepts'[j] = concepts[IF j < index THEN j ELSE j + 1]
                 /\ \A j \in 1..Len(concepts') :
                      concepts'[j].parent = concepts[index].name
                        => AppearsAsRoot(buildTree(concepts'), concepts', j)]_vars

(***************************************************************************)
(* C14: load() never fails its caller.  When the document is missing,      *)
(* unreadable, no JSON or fails the schema, the first call of the process  *)
(* gets a store without concepts and no error, and from then on the calls  *)
(* of the process work on the store in memory: it is never read again.     *)
(***************************************************************************)
C14_LoadFallsBack ==
  [][/\ (~loaded /\ loaded')
          => /\ last'.error = "none"
             /\ (disk.kind # "json" \/ ~ConformsToSchema(disk))
                  => concepts' = <<>>
     /\ (loaded /\ last'.op # "restart")
          => /\ loaded'
             /\ last'.op = "getAllConcepts"
                  => (concepts' = concepts /\ lastUpdated' = lastUpdated)]_vars

\* the first call of a process has found a document that fails the schema
C14_Witness ==
  /\ last.op = "getAllConcepts"
  /\ loaded
  /\ disk.kind = "json"
  /\ ~ConformsToSchema(disk)
  /\ concepts = <<>>

\* a restarted process has found a torn document, later than the write
C14_WitnessTorn ==
  /\ last.op = "getAllConcepts"
  /\ disk = TornDocument
  /\ concepts = <<>>
  /\ nextId > 1
  /\ lastUpdated > 0

\* a call reads the store in memory while the document differs from it
C14_WitnessCached ==
  /\ last.op = "getAllConcepts"
  /\ concepts # <<>>
  /\ disk.kind = "json"
  /\ disk.concepts = <<>>

(***************************************************************************)
(* C15: when a mutation (addConcept, updateConcept, deleteConcept that     *)
(* returns true, updateConceptParent) has returned, the concepts of the    *)
(* parsed document are the concepts of the store; a call that is rejected  *)
(* or does not mutate writes nothing.                                      *)
(***************************************************************************)
Mutations == {"addConcept", "updateConcept", "deleteConcept",
              "updateConceptParent"}

Successes == {"created", "merged", "updated", "deleted", "reparented"}

ParsedConcepts(document) ==
  [i \in 1..Len(document.concepts) |-> parseConcept(document.concepts[i])]

C15_DocumentFollowsStore ==
  [][last'.op \in Mutations \cup {"getTree"} =>
       IF last'.result \in Successes
         THEN last'.error = "none"
                => /\ disk'.kind = "json"
                   /\ ParsedConcepts(disk') = concepts'
         ELSE /\ last'.saved = "none"
              /\ disk' = disk]_vars

\* a reparenting has returned and there are two concepts, one with a parent
\* and one whose parent property the document does not have
C15_Witness ==
  /\ last.op = "updateConceptParent"
  /\ last.result \in Successes
  /\ last.error = "none"
  /\ Len(concepts) = 2
  /\ \E i \in Indices : "parent" \notin DOMAIN disk.concepts[i]
  /\ \E i \in Indices : concepts[i].parent = "a"

\* a call was rejected while the document was behind the store
C15_WitnessRejected ==
  /\ last.op = "updateConceptParent"
  /\ last.result \in Rejections
  /\ concepts # <<>>
  /\ ParsedConcepts(disk) # concepts

\* C16: a call during which a write of the store failed ends with an error
\* for its caller, the scan that stores the locations it found included.
C16_WriteFailureSurfaced ==
  last.saved \in {"fail", "torn"} => last.error = "io"

(***************************************************************************)
(* C18: when the extractor throws or returns no concepts, the extract      *)
(* operation changes no concept, saves nothing and leaves lastUpdated as   *)
(* it was.                                                                 *)
(***************************************************************************)
C18_FailedExtractionChangesNothing ==
  [][(/\ last'.op = "extractConcepts"
      /\ last'.result \in {"extractionFailed", "noConcepts"})
     => /\ concepts' = concepts
        /\ lastUpdated' = lastUpdated
        /\ disk' = disk
        /\ last'.saved = "none"]_vars

\* the extractor has thrown on a store that holds a concept, later than the
\* last save
C18_Witness ==
  /\ last.op = "extractConcepts"
  /\ last.result = "extractionFailed"
  /\ last.error = "extraction"
  /\ concepts # <<>>
  /\ lastUpdated < now

\* the extractor has found nothing, in a process that has not loaded yet
C18_WitnessEmpty ==
  /\ last.op = "extractConcepts"
  /\ last.result = "noConcepts"
  /\ ~loaded
  /\ now > 0

(***************************************************************************)
(* C17: the stores of two distinct tokens are isolated.  What a connection *)
(* with token T would see (the store of T's storage, or what its first     *)
(* load would read) is changed by no call made under another token and by  *)
(* no connection, and a connection with a token that was served before     *)
(* gets the store that token had.                                          *)
(***************************************************************************)
StoreOf(token) ==
  IF token = tenants.active
    THEN Storage(token, loaded, concepts, lastUpdated)
    ELSE getStorageForUser(tenants.storages, token)

FileOf(token) ==
  IF tenants.active # NoToken
     /\ storagePath(token) = storagePath(tenants.active)
    THEN disk
    ELSE FileAt(tenants.files, storagePath(token))

Observable(token) ==
  IF StoreOf(token).loaded
    THEN StoreOf(token).concepts
    ELSE LoadedStore(FileOf(token), 0).concepts

ValidTokens == {token \in Tokens : isValidUserToken(token)}

C17_TenantsIsolated ==
  [][\A token \in ValidTokens :
       /\ (token # tenants'.active \/ last'.op = "connect")
            => Observable(token)' = Observable(token)
       /\ (last'.op = "connect" /\ tenants'.active = token
            /\ tenants.active # token)
            => /\ last'.result = "connected"
               /\ StoreOf(token)' = StoreOf(token)]_vars

\* a call under the second token has changed its store while the first
\* token has a store with other concepts and a document behind it
C17_Witness ==
  /\ tenants.active = TokenTwo
  /\ last.op \in Mutations
  /\ last.result \in Successes
  /\ Observable(TokenOne) # <<>>
  /\ Observable(TokenOne) # Observable(TokenTwo)
  /\ ParsedConcepts(FileOf(TokenOne)) # Observable(TokenOne)

\* the first token is served again, after the second was
C17_WitnessReconnected ==
  /\ tenants.active = TokenOne
  /\ last.op = "connect"
  /\ concepts # <<>>
  /\ Observable(TokenTwo) # <<>>
  /\ Observable(TokenOne) # Observable(TokenTwo)

\* C19: every concept of every reachable store has a non-empty name,
\* whichever entry point created or renamed it.
C19_NamesNonEmpty ==
  \A i \in Indices : concepts[i].name # ""

(***************************************************************************)
(* C20: the JSON export is lossless for the core fields.  The parsed       *)
(* document holds one record for each selected concept and no other (all   *)
(* concepts when no ids are given, else those whose id is listed); name,   *)
(* category, parent and explanation of the record are those of the         *)
(* concept, and count is the number of records.                            *)
(***************************************************************************)
SelectedIndices ==
  IF ~last.ids.given \/ last.ids.value = <<>>
    THEN Indices
    ELSE {i \in Indices : concepts[i].id \in Range(last.ids.value)}

RecordsOf(i) ==
  {k \in 1..Len(last.body.concepts) :
     Property(last.body.concepts[k], "id") = concepts[i].id}

C20_ExportLossless ==
  last.op = "exportConcepts" =>
    /\ last.body.count = Len(last.body.concepts)
    /\ Len(last.body.concepts) = Cardinality(SelectedIndices)
    /\ \A i \in SelectedIndices :
         /\ Cardinality(RecordsOf(i)) = 1
         /\ \A k \in RecordsOf(i) :
              LET record == last.body.concepts[k]
              IN /\ Property(record, "name") = concepts[i].name
                 /\ Property(record, "category") = concepts[i].category
                 /\ Property(record, "parent") = concepts[i].parent
                 /\ Property(record, "explanation") = concepts[i].explanation

\* an export of one of two concepts, listed twice next to an unknown id;
\* its parent is the empty string, the other concept has none
C20_Witness ==
  /\ last.op = "exportConcepts"
  /\ Len(concepts) = 2
  /\ Cardinality(SelectedIndices) = 1
  /\ Len(last.ids.value) = 2
  /\ \E i \in SelectedIndices : concepts[i].parent = ""
  /\ \E i \in Indices : concepts[i].parent = Undefined

\* an export of all concepts, one of them without parent, without snippets
C20_WitnessAll ==
  /\ last.op = "exportConcepts"
  /\ last.ids = ConceptIds(<<>>)
  /\ last.body.count = 2
  /\ \E k \in 1..2 : "parent" \notin DOMAIN last.body.concepts[k]
  /\ \E k \in 1..2 : "chatSnippets" \notin DOMAIN last.body.concepts[k]

(***************************************************************************)
(* C21: chatSnippets is append-only.  Across every call, the chatSnippets  *)
(* a concept had before are a prefix of those it has afterwards, for every *)
(* concept that is still in the store.                                     *)
(***************************************************************************)
IsPrefix(front, seq) ==
  /\ Len(front) <= Len(seq)
  /\ SubSeq(seq, 1, Len(front)) = front

C21_SnippetsAppendOnly ==
  [][\A i \in 1..Len(concepts), j \in 1..Len(concepts') :
       concepts'[j].id = concepts[i].id
         => IsPrefix(concepts[i].chatSnippets, concepts'[j].chatSnippets)]_vars

\* a second snippet has just been pushed, later than the first
C21_Witness ==
  /\ last.op \in {"addConcept", "updateConcept"}
  /\ Truthy(last.snippet)
  /\ Target(concepts) # 0
  /\ LET snippets == concepts[Target(concepts)].chatSnippets
     IN /\ Len(snippets) = 2
        /\ snippets[1].timestamp < snippets[2].timestamp
        /\ snippets[2].timestamp = last.at

(***************************************************************************)
(* C22: the ids of the concepts are pairwise distinct in every reachable   *)
(* state, and no call changes the id, the category or firstSeen of a       *)
(* concept: a call other than deleteConcept leaves every concept at its    *)
(* position with its id, and a concept that is still in the store has the  *)
(* category and firstSeen it had.                                          *)
(***************************************************************************)
DistinctIds(cs) ==
  \A i, j \in 1..Len(cs) : cs[i].id = cs[j].id => i = j

C22_IdentityImmutable ==
  [][/\ DistinctIds(concepts')
     /\ last'.op # "deleteConcept"
          => \A i \in 1..Len(concepts) :
               /\ i <= Len(concepts')
               /\ concepts'[i].id = concepts[i].id
     /\ \A i \in 1..Len(concepts), j \in 1..Len(concepts') :
          concepts'[j].id = concepts[i].id
            => /\ concepts'[j].category = concepts[i].category
               /\ concepts'[j].firstSeen = concepts[i].firstSeen]_vars

\* a scan has stored a location for the second of two concepts, later than
\* both were created and than the first was last changed
C22_Witness ==
  /\ last.op = "scanCodebase"
  /\ last.body.count = 1
  /\ Len(concepts) = 2
  /\ concepts[2].codeLocations # <<>>
  /\ concepts[1].codeLocations = <<>>
  /\ concepts[2].firstSeen < concepts[2].lastSeen
  /\ concepts[1].lastSeen < concepts[2].lastSeen

\* one of two concepts has been merged into by an add later than its creation
C22_WitnessMerged ==
  /\ last.op = "addConcept"
  /\ last.result = "merged"
  /\ Len(concepts) = 2
  /\ Target(concepts) # 0
  /\ concepts[Target(concepts)].firstSeen < concepts[Target(concepts)].lastSeen

(***************************************************************************)
(* C23: for every include and exclude option, an empty exclude list        *)
(* included, the files the scanner collects are the regular files below    *)
(* rootPath whose extension is included and that have no path component    *)
(* whose name is excluded or begins with a dot (as far as the directories  *)
(* above them can be read).                                                *)
(***************************************************************************)
\* entry k of the project lies in directories that can all be read
Reachable(project, k) ==
  \A n \in 0..(Len(project[k].path) - 1) :
    ~ReaddirThrows(project, SubSeq(project[k].path, 1, n))

\* a component of the path of entry k is excluded or hidden
Skipped(project, k, exclude) ==
  \E n \in 1..Len(project[k].path) :
    \/ startsWithDot(project[k].path[n])
    \/ \E e \in 1..Len(exclude) : exclude[e] = project[k].path[n]

\* the extension of a name: the characters after its last dot
Extension(name) ==
  IF \E k \in 2..Len(name) : name[k] = "."
    THEN LET d == CHOOSE k \in 2..Len(name) :
                    name[k] = "." /\ \A j \in (k + 1)..Len(name) : name[j] # "."
         IN [j \in 1..(Len(name) - d) |-> name[d + j]]
    ELSE <<>>

ToCollect(project, include, exclude) ==
  {RootPath \o project[k].path :
     k \in {j \in 1..Len(project) :
              /\ project[j].kind = "file"
              /\ project[j].path # <<>>
              /\ Reachable(project, j)
              /\ ~Skipped(project, j, exclude)
              /\ Extension(project[j].path[Len(project[j].path)])
                   \in Range(include)}}

C23_SkipsExcludedAndHidden ==
  scanner.called =>
    Range(scanner.files) =
      ToCollect(scanner.project,
                OrDefault(scanner.include, defaultInclude),
                OrDefault(scanner.exclude, defaultExclude))

(***************************************************************************)
(* C24: a scan whose rootPath cannot be read fails with an error; a file   *)
(* or a directory below it that cannot be read is skipped.                 *)
(***************************************************************************)
C24_UnreadableRootFails ==
  (scanner.called /\ ReaddirThrows(scanner.project, <<>>))
    => scanner.error # "none"

(***************************************************************************)
(* C25: the keys of the map scanAllConcepts returns are the ids of the     *)
(* concepts that a line of a collected file mentions; the locations of a   *)
(* key are one for each such line and no other, each with the path         *)
(* relative to rootPath and the number of the line, counted from 1.  In    *)
(* the project of the model, where only line 5 of src/a.ts mentions "a",   *)
(* the default scan maps the concept "a" to the one location src/a.ts:5.   *)
(***************************************************************************)
\* the lines of the collected files that mention concept i
MatchingLines(i) ==
  UNION {{[file |-> scanner.project[k].path, line |-> n] :
            n \in {m \in 1..Len(scanner.project[k].lines) :
                     Mentions(scanner.project[k].lines[m],
                              Chars(concepts[i].name))}} :
           k \in {j \in 1..Len(scanner.project) :
                    /\ RootPath \o scanner.project[j].path
                         \in Range(scanner.files)
                    /\ scanner.project[j].readable}}

C25_ScanResults ==
  last.op = "scanAllConcepts" =>
    /\ DOMAIN scanner.results =
         {concepts[i].id : i \in {j \in Indices : MatchingLines(j) # {}}}
    /\ \A i \in Indices :
         concepts[i].id \in DOMAIN scanner.results =>
           /\ Range(scanner.results[concepts[i].id]) = MatchingLines(i)
           /\ NoRepeats(scanner.results[concepts[i].id])
    /\ \A i \in Indices :
         (/\ concepts[i].name = "a"
          /\ scanner.project = Project(TRUE)
          /\ ~scanner.include.given
          /\ ~scanner.exclude.given)
         => /\ concepts[i].id \in DOMAIN scanner.results
            /\ scanner.results[concepts[i].id]
                 = <<[file |-> <<Src, ATs>>, line |-> 5]>>

\* the default scan of the project for "a" and "b": "a" has one location,
\* "b" is no key of the map
C25_Witness ==
  /\ last.op = "scanAllConcepts"
  /\ ~scanner.include.given
  /\ ~scanner.exclude.given
  /\ Len(concepts) = 2
  /\ \E i, j \in Indices :
       /\ concepts[i].name = "a"
       /\ concepts[j].name = "b"
       /\ DOMAIN scanner.results = {concepts[i].id}
       /\ Len(scanner.results[concepts[i].id]) = 1

\* a scan that has found two concepts, one of them on several lines
C25_WitnessSeveral ==
  /\ last.op = "scanAllConcepts"
  /\ Cardinality(DOMAIN scanner.results) = 2
  /\ \E id \in DOMAIN scanner.results : Len(scanner.results[id]) >= 3

(***************************************************************************)
(* C26: in a store whose names are unique ignoring case and whose parent   *)
(* graph is acyclic, updateConceptParent(id, p) of an existing concept     *)
(* with p the name of a concept succeeds exactly if p is not the target's  *)
(* name and the target is no ancestor of p, and is rejected as circular    *)
(* otherwise; on success the target's parent is p, its lastSeen is the     *)
(* time of the call, and the graph is acyclic again.                       *)
(***************************************************************************)
\* the last call reparents an existing concept under an existing name
ReparentsUnderExisting ==
  /\ last'.op = "updateConceptParent"
  /\ IndexById(concepts, last'.id) # 0
  /\ \E i \in Indices : concepts[i].name = last'.parent

C26_WitnessMoved ==
  /\ last.op = "updateConceptParent"
  /\ last.result = "reparented"
  /\ Target(concepts) # 0
  /\ concepts[Target(concepts)].name = "seed"
  /\ concepts[Target(concepts)].parent = "b"
  /\ concepts[Target(concepts)].lastSeen = now
  /\ now > 0
  /\ \E j \in Indices : concepts[j].name = "b" /\ concepts[j].parent = "a"

(***************************************************************************)
(* C27: a StorageService has one Store object only.  Every call that has   *)
(* loaded holds the object that this.store is, also when load() was        *)
(* called again before the first load had ended, and once all calls have   *)
(* returned every concept they added is in the store and in the document.  *)
(***************************************************************************)
HoldsName(cs, name) ==
  \E i \in 1..Len(cs) : toLowerCase(cs[i].name) = toLowerCase(name)

C27_OneStoreObject ==
  /\ Len(calls.objects) <= 1
  /\ \A o \in Callers :
       calls.at[o] \in {"loaded", "found", "saving"}
         => calls.store[o] = calls.current
  /\ (\A o \in Callers : calls.at[o] = "idle")
       => \A name \in calls.returned :
            /\ HoldsName(concepts, name)
            /\ HoldsName(ParsedConcepts(disk), name)

(***************************************************************************)
(* C28: rendering and serializing the forest terminate for every store the *)
(* repository can reach: no node that can be reached from the roots of the *)
(* built forest can be reached from itself through children links.         *)
(***************************************************************************)
ChildrenOf(f, n) == {f.children[n][k] : k \in 1..Len(f.children[n])}

C28_ForestHasNoLoop ==
  tree.built =>
    \A n \in InForest(tree) : n \notin ReachableNodes(tree, ChildrenOf(tree, n))

(***************************************************************************)
(* C29: a parent reference resolves ignoring case wherever it is resolved, *)
(* as in getConceptByName: updateConceptParent finds the parent when a     *)
(* concept has the name of the reference in another case, and the forest   *)
(* makes a concept whose parent names another concept in another case a    *)
(* child, not a root.                                                      *)
(***************************************************************************)
C29_ResolvesIgnoringCase ==
  /\ (/\ last.op = "updateConceptParent"
      /\ Target(concepts) # 0
      /\ Truthy(last.parent)
      /\ getConceptByName(concepts, last.parent) # 0)
       => last.result # "notFoundParent"
  /\ tree.built =>
       \A i \in Indices :
         (/\ Truthy(concepts[i].parent)
          /\ \E j \in Indices :
               /\ j # i
               /\ toLowerCase(concepts[j].name) = toLowerCase(concepts[i].parent))
         => ~AppearsAsRoot(tree, concepts, i)

(***************************************************************************)
(* C30: addConcept stores the parent it is given, also when no concept of  *)
(* that name exists.  In every forest built afterwards a concept with a    *)
(* parent reference is a root as long as no other concept has that name    *)
(* (none was added yet, or it was deleted or renamed), and a child of the  *)
(* concept of that name, and no root, as long as there is one.             *)
(***************************************************************************)
C30_DanglingParentIsRoot ==
  /\ (last.result = "created" /\ Truthy(last.parent))
       => concepts[Target(concepts)].parent = last.parent
  /\ tree.built =>
       \A i \in Indices :
         Truthy(concepts[i].parent) =>
           IF \E j \in Indices : j # i /\ concepts[j].name = concepts[i].parent
             THEN /\ concepts[i].name \in ChildrenOf(tree, concepts[i].parent)
                  /\ concepts[i].name \notin Range(tree.roots)
             ELSE AppearsAsRoot(tree, concepts, i)

(***************************************************************************)
(* C31: an addConcept that merges (a concept has that name, ignoring case) *)
(* leaves the id, name, category, explanation, parent, codeLocations and   *)
(* firstSeen of the existing concept as they were, whatever category,      *)
(* explanation and parent the call carries, and leaves every other concept *)
(* as it was.                                                              *)
(***************************************************************************)
Kept == {"id", "name", "category", "explanation", "parent", "codeLocations",
         "firstSeen"}

C31_MergeFrame ==
  [][(last'.op = "addConcept" /\ Namesakes(concepts, last'.name) # {})
     => LET i == FirstNamesake(concepts, last'.name)
        IN /\ last'.result = "merged"
           /\ Len(concepts') = Len(concepts)
           /\ \A f \in Kept : concepts'[i][f] = concepts[i][f]
           /\ \A j \in 1..Len(concepts) : j # i => concepts'[j] = concepts[j]]_vars

\* a concept that has a code location was added again under a name of
\* another case with another category, explanation and parent
C31_Witness ==
  /\ last.op = "addConcept"
  /\ last.result = "merged"
  /\ Target(concepts) # 0
  /\ LET c == concepts[Target(concepts)]
     IN /\ c.name # last.name
        /\ c.category # last.category
        /\ c.explanation # last.explanation
        /\ c.parent # last.parent
        /\ c.codeLocations # <<>>
        /\ c.lastSeen > c.firstSeen

(***************************************************************************)
(* C32: on every snapshot of concepts the forest of the tree endpoint is   *)
(* the forest of ExportService.buildTree: the same roots, the same         *)
(* children of every node, in the same order.  The roots are the names of  *)
(* the concepts whose parent names no concept, in the order of the         *)
(* concepts, the children of a node are the names of the concepts whose    *)
(* parent is its key, in the order of the concepts; neither the endpoint   *)
(* nor the export changes the concepts.                                    *)
(***************************************************************************)
NamesOf(cs) == [k \in 1..Len(cs) |-> cs[k].name]

RootsInOrder(cs) ==
  LET unresolved(c) == ~(Truthy(c.parent) /\ \E j \in 1..Len(cs) : cs[j].name = c.parent)
  IN NamesOf(SelectSeq(cs, unresolved))

ChildrenInOrder(cs, n) ==
  LET under(c) == Truthy(c.parent) /\ c.parent = n
  IN NamesOf(SelectSeq(cs, under))

C32_ForestsAgree ==
  /\ [](tree.built =>
          /\ tree = buildTree(concepts)
          /\ tree.roots = RootsInOrder(concepts)
          /\ \A n \in tree.nodes : tree.children[n] = ChildrenInOrder(concepts, n))
  /\ [][(loaded /\ last'.op \in {"getTree", "exportMarkdown"})
          => concepts' = concepts]_vars

\* the endpoint built a forest in which a root has two children of
\* different names
C32_Witness ==
  /\ tree.built
  /\ last.op = "getTree"
  /\ \E n \in tree.nodes :
       /\ \E k \in 1..Len(tree.roots) : tree.roots[k] = n
       /\ Len(tree.children[n]) = 2
       /\ tree.children[n][1] # tree.children[n][2]

\* the endpoint built a forest of two roots of different names
C32_WitnessRoots ==
  /\ tree.built
  /\ Len(tree.roots) >= 2
  /\ tree.roots[1] # tree.roots[2]

\* the same snapshot was exported as markdown: the roots are rendered in
\* the order of the concepts
C32_WitnessExported ==
  /\ last.op = "exportMarkdown"
  /\ last.result = "exported"
  /\ Len(RootsInOrder(concepts)) >= 2
  /\ RootsInOrder(concepts)[1] # RootsInOrder(concepts)[2]

(***************************************************************************)
(* C33: when the write of addConcept, updateConcept, deleteConcept or      *)
(* updateConceptParent is rejected, the concepts of the store in memory    *)
(* are what they were before the call.                                     *)
(***************************************************************************)
C33_FailedWriteLeavesStore ==
  [][(/\ last'.op \in {"addConcept", "updateConcept", "deleteConcept",
                       "updateConceptParent"}
      /\ last'.error = "io")
     => concepts' = concepts]_vars

(***************************************************************************)
(* C34: when two addConcept calls for one name overlap on a store that has *)
(* one Store object, the store holds exactly one concept of that name once *)
(* both have returned.                                                     *)
(***************************************************************************)
C34_OneConceptPerName ==
  (/\ \A o \in Callers : calls.at[o] = "idle"
   /\ Len(calls.objects) = 1)
  => \A name \in calls.returned : Cardinality(Namesakes(concepts, name)) = 1

(***************************************************************************)
(* C35: once all the overlapping calls have returned, the document is the  *)
(* store in memory: the write that ended last wrote the store as the last  *)
(* mutation left it.                                                       *)
(***************************************************************************)
C35_DocumentIsFinalStore ==
  (/\ \A o \in Callers : calls.at[o] = "idle"
   /\ calls.returned # {})
  => disk = Document(concepts, lastUpdated)

(***************************************************************************)
(* C36: the cycle check ends on every store, also when the parents of the  *)
(* store form a cycle or lead to a name that no concept has: a loop that   *)
(* has begun returns.  It returns true when the walk from the prospective  *)
(* parent comes to a name it has visited, and what it returns is what      *)
(* updateConceptParent acts on.                                            *)
(***************************************************************************)
C36_CycleCheckEnds ==
  /\ (walk.at = "looping") ~> (walk.at = "returned")
  /\ [][(walk.at = "looping" /\ walk.current \in walk.visited)
          => (walk'.at = "returned" /\ walk'.result)]_vars
  /\ [](walk.at = "returned"
          => walk.result = wouldCreateCycle(concepts, last.id, walk.parentName))

\* the walk came back to a name it had visited, which is not the name of
\* the child, and returned true
C36_Witness ==
  /\ walk.at = "returned"
  /\ walk.result
  /\ walk.current \in walk.visited
  /\ walk.current # walk.child

\* the walk left the store through a name that no concept has
C36_WitnessDangling ==
  /\ walk.at = "returned"
  /\ ~walk.result
  /\ "z" \in walk.visited

(***************************************************************************)
(* C37: in a markdown export that includes snippets, a concept that is     *)
(* rendered and has n chat snippets gets min(n, 3) snippet lines, those of *)
(* its first snippets in their order, and right after them one line that   *)
(* tells that n - 3 more exist if and only if n > 3.                       *)
(***************************************************************************)
LinesOf(kind, name) ==
  {i \in 1..Len(last.lines) : last.lines[i].kind = kind /\ last.lines[i].of = name}

Rendered == {i \in Indices : LinesOf("heading", concepts[i].name) # {}}

Min(m, n) == IF m < n THEN m ELSE n

C37_SnippetLines ==
  (/\ last.op = "exportMarkdown"
   /\ last.result = "exported"
   /\ last.includeSnippets # False)
  => \A i \in Rendered :
       LET name == concepts[i].name
           n == Len(concepts[i].chatSnippets)
           refs == LinesOf("reference", name)
           more == LinesOf("more", name)
       IN /\ Cardinality(refs) = Min(n, 3)
          /\ \A j \in refs : j + 1 \in refs \cup more \/ Cardinality({k \in refs : k <= j}) = Min(n, 3)
          /\ \A j \in refs :
               last.lines[j].n =
                 toLocaleDateString(
                   concepts[i].chatSnippets[Cardinality({k \in refs : k <= j})].timestamp)
          /\ n > 3 <=> more # {}
          /\ \A j \in more :
               /\ Cardinality(more) = 1
               /\ last.lines[j].n = n - 3
               /\ j - 1 \in refs

\* a concept of five snippets was exported with its snippets: three lines
\* and a line for the two others
C37_Witness ==
  /\ last.op = "exportMarkdown"
  /\ last.result = "exported"
  /\ last.includeSnippets # False
  /\ \E i \in Rendered :
       /\ Len(concepts[i].chatSnippets) = 5
       /\ Cardinality(LinesOf("reference", concepts[i].name)) = 3
       /\ \E j \in LinesOf("more", concepts[i].name) : last.lines[j].n = 2

\* a concept of exactly three snippets was exported: three lines, no more
C37_WitnessThree ==
  /\ last.op = "exportMarkdown"
  /\ last.result = "exported"
  /\ last.includeSnippets # False
  /\ \E i \in Rendered :
       /\ Len(concepts[i].chatSnippets) = 3
       /\ Cardinality(LinesOf("reference", concepts[i].name)) = 3

(***************************************************************************)
(* C38: the code locations of a markdown export are capped: some bound     *)
(* below the largest number of locations a concept stores is not exceeded  *)
(* by the location lines of any concept.                                   *)
(***************************************************************************)
C38_LocationLinesCapped ==
  (/\ last.op = "exportMarkdown"
   /\ last.result = "exported")
  => \E cap \in 0..(MaxPlaces - 1) :
       \A i \in Rendered :
         Cardinality(LinesOf("location", concepts[i].name)) <= cap

====
